---- MODULE Spec2Model ----
(***************************************************************************)
(* A model of the concurrent state-coordination layer of the inventory     *)
(* backend: the stock ledger (internal/service inventory service over a    *)
(* PostgreSQL store reached through gorm.io/gorm), the websocket Hub, the  *)
(* shift-overlap detector and the session state of the auth service.       *)
(*                                                                         *)
(* Each subsystem has its own specification over its own variables; the   *)
(* variables of the other subsystems stay at their initial values.         *)
(***************************************************************************)
EXTENDS Integers, Sequences, FiniteSets, TLC

VARIABLES
    \* ---- stock ledger (PostgreSQL rows and in-flight units of work) ----
    stock,      \* committed products.stock of the one product row
    price,      \* committed products.price of that row
    ledger,     \* committed rows of the transactions table
    call,       \* call[c]: one RecordTransaction / UpdateProduct invocation
    rowLock,    \* the call whose uncommitted UPDATE holds the row lock, or 0
    stock0,     \* the stock the product row started with (never changes)
    faults,     \* number of injected persistence failures so far
    overlap,    \* history: two units of work were open at the same time
    stockWrites, \* history: the calls whose write of products.stock is committed
    \* ---- websocket Hub ----
    Clients,      \* Hub.Clients: the set of registered connections
    UserClients,  \* Hub.UserClients: user id -> list of that user's connections
    ConnToUser,   \* Hub.ConnToUser: connection -> user id
    connState,    \* per connection: "none", "open", "broken" (writes fail), "closed"
    handler,      \* per connection: position of its /ws handler goroutine
    chans,        \* senders blocked on Register, Unregister, Broadcast, TargetedSend
    msgs,         \* per payload: its kind, its target users and where it is
    last,         \* history: what the latest dispatch of the Hub did
    \* ---- shift-overlap detector ----
    probe,        \* two time ranges given to timeRangesOverlap, and its answer
    \* ---- shift scheduler ----
    shifts,       \* the shifts table: row i is the shift with id i
    shiftCall,    \* shiftCall[c]: one CreateShift / UpdateShift / DeleteShift call
    nowEarly,     \* the calls run before 07:00, Jakarta time
    notices,      \* history: the notifications the calls have spawned
    \* ---- sessions ----
    user,         \* the stored row of the one user
    clock,        \* the time, in minutes
    sessCall,     \* sessCall[c]: one Login / ResetPassword / ... call
    issued,       \* history: the tokens the Logins returned, in order of return
    \* ---- the Hub mutex ----
    mutex,        \* Hub.mutex: "free" or the goroutine that holds it
    proc,         \* proc[p]: where goroutine p is in its registry operation
    \* ---- the product catalogue ----
    products,     \* the products table: the SKUs of its rows, in order of insertion
    createCall    \* createCall[c]: one CreateProduct call

ledgerVars == <<stock, price, ledger, call, rowLock, stock0, faults, overlap, stockWrites>>

hubVars == <<Clients, UserClients, ConnToUser, connState, handler, chans, msgs, last>>

intervalVars == <<probe>>

shiftVars == <<shifts, shiftCall, nowEarly, notices>>

sessionVars == <<user, clock, sessCall, issued>>

lockVars == <<mutex, proc>>

catalogVars == <<products, createCall>>

vars == <<ledgerVars, hubVars, intervalVars, shiftVars, sessionVars, lockVars, catalogVars>>

\* What the actions of one subsystem leave alone.
notLedger == <<hubVars, intervalVars, shiftVars, sessionVars, lockVars, catalogVars>>
notHub == <<ledgerVars, intervalVars, shiftVars, sessionVars, lockVars, catalogVars>>
notInterval == <<ledgerVars, hubVars, shiftVars, sessionVars, lockVars, catalogVars>>
notShift == <<ledgerVars, hubVars, intervalVars, sessionVars, lockVars, catalogVars>>
notSession == <<ledgerVars, hubVars, intervalVars, shiftVars, lockVars, catalogVars>>
notLock == <<ledgerVars, hubVars, intervalVars, shiftVars, sessionVars, catalogVars>>
notCatalog == <<ledgerVars, hubVars, intervalVars, shiftVars, sessionVars, lockVars>>

(***************************************************************************)
(*                              WEBSOCKET HUB                              *)
(***************************************************************************)

\* Bounds of the Hub model.
MaxConns == 2          \* websocket connections that dial in, per behaviour
MaxUserConns == 3      \* the same, in the behaviours about one user's list
MaxMsgs == 1           \* payloads submitted per behaviour
MaxGone == 1           \* peers that go away per behaviour

Msgs == 1..MaxMsgs

\* The user_id query values of /ws: two users, and "" for an anonymous client.
Users == {"u1", "u2"}
Anonymous == ""

\* The UserIDs lists a targeted send may carry.
UserLists == {<<"u1">>, <<"u2", "u1">>}

Range(q) == {q[i] : i \in 1..Len(q)}

RECURSIVE IndexOf(_, _, _)
\* for i, c := range conns { if c == conn { ... break } }: the first position
\* of x among the first n elements of arr, 0 when it is not there.
IndexOf(arr, n, x) ==
    IF n = 0 THEN 0
    ELSE LET i == IndexOf(arr, n - 1, x)
         IN  IF i # 0 THEN i ELSE IF arr[n] = x THEN n ELSE 0

\* append(conns[:i], conns[i+1:]...) on a slice of length len over the array
\* arr: the elements after position i move one place down inside the same
\* array; the slice gets one shorter, the array keeps its last element.
RemoveFromSlice(arr, len, conn) ==
    LET i == IndexOf(arr, len, conn)
    IN  IF i = 0 THEN [arr |-> arr, len |-> len]
        ELSE [arr |-> [k \in 1..Len(arr) |->
                          IF k >= i /\ k < len THEN arr[k + 1] ELSE arr[k]],
              len |-> len - 1]

\* The registry as one value, for the operators below.
Registry == [clients |-> Clients, userClients |-> UserClients,
             connToUser |-> ConnToUser, state |-> connState]

Without(f, x) == [y \in DOMAIN f \ {x} |-> f[y]]
With(f, x, v) == [y \in DOMAIN f \cup {x} |-> IF y = x THEN v ELSE f[y]]

\* Mutant: the user's key stays in the map when the list gets empty.
removeUserConnection_KeepsEmptyList(reg, userID, conn) ==
    IF userID \notin DOMAIN reg.userClients THEN reg
    ELSE [reg EXCEPT !.userClients[userID] = SelectSeq(@, LAMBDA c : c # conn)]

\* removeUserConnection(userID, conn) on the list stored in the map.
removeUserConnection(reg, userID, conn) ==
    IF userID \notin DOMAIN reg.userClients THEN reg
    ELSE LET r == RemoveFromSlice(reg.userClients[userID],
                                  Len(reg.userClients[userID]), conn)
         IN  IF r.len = 0
             THEN [reg EXCEPT !.userClients = Without(@, userID)]
             ELSE [reg EXCEPT !.userClients[userID] = SubSeq(r.arr, 1, r.len)]

\* conn.WriteMessage succeeds on an open connection whose peer is there.
WriteOk(reg, conn) == reg.state[conn] = "open"

\* Mutant: Unregister forgets the per-user list.
UnregisterCleanup_KeepsUserList(reg, conn) ==
    IF conn \in DOMAIN reg.connToUser
    THEN [reg EXCEPT !.connToUser = Without(@, conn)]
    ELSE reg

\* Unregister: if userID, exists := h.ConnToUser[conn]; exists { ... }
UnregisterCleanup(reg, conn) ==
    IF conn \in DOMAIN reg.connToUser
    THEN [removeUserConnection(reg, reg.connToUser[conn], conn)
            EXCEPT !.connToUser = Without(@, conn)]
    ELSE reg

\* case conn := <-h.Unregister, under the mutex.
DoUnregister(reg, conn) ==
    IF conn \in reg.clients
    THEN [UnregisterCleanup([reg EXCEPT !.clients = @ \ {conn}], conn)
            EXCEPT !.state[conn] = "closed"]
    ELSE reg

\* Mutant: the error branch of a broadcast write leaves the user's list alone.
DropFailed_KeepsUserList(reg, conn) ==
    [reg EXCEPT !.state[conn] = "closed", !.clients = @ \ {conn},
                !.connToUser = [y \in DOMAIN @ \ {conn} |-> @[y]]]

\* The error branch of a broadcast write: conn.Close(), delete(h.Clients, conn)
\* and the cleanup of the user mapping.
DropFailed(reg, conn) ==
    LET r == [reg EXCEPT !.state[conn] = "closed", !.clients = @ \ {conn}]
    IN  IF conn \in DOMAIN r.connToUser
        THEN [removeUserConnection(r, r.connToUser[conn], conn)
                EXCEPT !.connToUser = Without(@, conn)]
        ELSE r

\* Mutant: the broadcast loop stops at the first failed write.
BroadcastGoesOn_StopsAtFailure == FALSE

\* for conn := range h.Clients { ... }: the loop has no break or return.
BroadcastGoesOn == TRUE

RECURSIVE BroadcastLoop(_, _)
\* for conn := range h.Clients: every connection of the map is visited once (a
\* visit deletes only its own key); each visit depends on that connection
\* alone, so the order of the visits does not change the outcome.
\* d = [reg, todo, writes, got]: the registry, the connections still to visit,
\* the writes made so far, the connections whose write succeeded.
BroadcastLoop(d, stopped) ==
    IF d.todo = {} \/ stopped THEN d
    ELSE LET conn == CHOOSE x \in d.todo : \A y \in d.todo : x <= y
             ok == WriteOk(d.reg, conn)
         IN  BroadcastLoop(
                [reg |-> IF ok THEN d.reg ELSE DropFailed(d.reg, conn),
                 todo |-> d.todo \ {conn},
                 writes |-> Append(d.writes, conn),
                 got |-> IF ok THEN d.got \cup {conn} ELSE d.got],
                ~ok /\ ~BroadcastGoesOn)

RECURSIVE TargetedConns(_, _, _, _, _, _)
\* for _, conn := range conns over one user's list.  conns is the slice read
\* from the map before the loop (arr, n elements); removeUserConnection
\* shortens the slice stored in the map (sl.len elements, gone from the map
\* when sl.present is FALSE) inside the same array.  i is the next index.
TargetedConns(d, userID, arr, n, i, sl) ==
    IF i > n THEN [d EXCEPT !.reg.userClients =
                     IF sl.present THEN With(@, userID, SubSeq(arr, 1, sl.len))
                     ELSE Without(@, userID)]
    ELSE LET conn == arr[i]
             ok == WriteOk(d.reg, conn)
             rm == IF ~ok /\ sl.present
                   THEN RemoveFromSlice(arr, sl.len, conn)
                   ELSE [arr |-> arr, len |-> sl.len]
             nsl == [present |-> sl.present /\ rm.len > 0, len |-> rm.len]
             nreg == IF ok THEN d.reg
                     ELSE [d.reg EXCEPT !.state[conn] = "closed",
                                        !.clients = @ \ {conn},
                                        !.connToUser = Without(@, conn)]
         IN  TargetedConns([reg |-> nreg,
                            writes |-> Append(d.writes, conn),
                            got |-> IF ok THEN d.got \cup {conn} ELSE d.got],
                           userID, rm.arr, n, i + 1, nsl)

RECURSIVE TargetedLoop(_, _)
\* for _, userID := range targeted.UserIDs { if conns, exists := ... }
TargetedLoop(d, userIDs) ==
    IF userIDs = <<>> THEN d
    ELSE LET u == Head(userIDs)
         IN  IF u \in DOMAIN d.reg.userClients
             THEN LET conns == d.reg.userClients[u]
                  IN  TargetedLoop(
                        TargetedConns(d, u, conns, Len(conns), 1,
                                      [present |-> TRUE, len |-> Len(conns)]),
                        Tail(userIDs))
             ELSE TargetedLoop(d, Tail(userIDs))

\* enqReg: for a broadcast, the connections registered when its send started.
NoMsg == [kind |-> "none", users |-> <<>>, at |-> "unsent", enqReg |-> {}]

NoDispatch == [msg |-> 0, kind |-> "none", enqReg |-> {}, dispReg |-> {},
               exited |-> {}, writes |-> <<>>, got |-> {}, prevGot |-> {}]

\* NewHub(): empty maps, nobody blocked on a channel; no connection has dialled.
HubStart(n) ==
    /\ Clients = {}
    /\ UserClients = <<>>
    /\ ConnToUser = <<>>
    /\ connState = [c \in 1..n |-> "none"]
    /\ handler = [c \in 1..n |-> [pc |-> "new", user |-> Anonymous]]
    /\ chans = [register |-> <<>>, unregister |-> <<>>, broadcast |-> <<>>, targeted |-> <<>>]
    /\ msgs = [m \in Msgs |-> NoMsg]
    /\ last = NoDispatch

Conns == DOMAIN handler

\* The connections whose peer has gone away so far.
Gone == {c \in Conns : connState[c] \in {"broken", "closed"}}

SetRegistry(reg) ==
    /\ Clients' = reg.clients
    /\ UserClients' = reg.userClients
    /\ ConnToUser' = reg.connToUser
    /\ connState' = reg.state

\* Connections dial in in the order of their numbers.
MayDial(conn) ==
    /\ handler[conn].pc = "new"
    /\ IF conn = 1 THEN TRUE ELSE handler[conn - 1].pc # "new"

\* The mutex is free whenever Hub.Run is not inside one of its locked sections,
\* and each locked section is one step here.
(* /ws handler with ?user_id=u: Hub.RegisterWithUser(conn, u), under the mutex. *)
RegisterWithUser(conn, u) ==
    /\ MayDial(conn)
    /\ u \in Users
    /\ u = "u2" => \E c \in Conns : handler[c].user = "u1"    \* the users are alike
    /\ handler' = [handler EXCEPT ![conn] = [pc |-> "reading", user |-> u]]
    /\ Clients' = Clients \cup {conn}
    /\ UserClients' = With(UserClients, u,
            (IF u \in DOMAIN UserClients THEN UserClients[u] ELSE <<>>) \o <<conn>>)
    /\ ConnToUser' = With(ConnToUser, conn, u)
    /\ connState' = [connState EXCEPT ![conn] = "open"]
    /\ UNCHANGED <<chans, msgs, last>>

(* /ws handler without user_id: wsHub.Register <- c, the send blocks until the *)
(* Hub receives.                                                              *)
RegisterSend(conn) ==
    /\ MayDial(conn)
    /\ handler' = [handler EXCEPT ![conn].pc = "registering"]
    /\ connState' = [connState EXCEPT ![conn] = "open"]
    /\ chans' = [chans EXCEPT !.register = Append(@, conn)]
    /\ UNCHANGED <<Clients, UserClients, ConnToUser, msgs, last>>

(* The peer goes away: from now on writes to the connection fail, and a        *)
(* handler waiting in c.ReadMessage() gets an error, leaves its loop and runs  *)
(* the deferred wsHub.Unregister <- c, which blocks until the Hub receives.    *)
PeerGone(conn) ==
    /\ connState[conn] = "open"
    /\ Cardinality(Gone) < MaxGone
    /\ connState' = [connState EXCEPT ![conn] = "broken"]
    /\ IF handler[conn].pc = "reading"
       THEN /\ handler' = [handler EXCEPT ![conn].pc = "unregistering"]
            /\ chans' = [chans EXCEPT !.unregister = Append(@, conn)]
       ELSE UNCHANGED <<handler, chans>>
    /\ UNCHANGED <<Clients, UserClients, ConnToUser, msgs, last>>

(* A handler that reaches c.ReadMessage() after its peer went away (or after   *)
(* the Hub closed the connection): the read fails, Unregister is sent.         *)
ReadFails(conn) ==
    /\ handler[conn].pc = "reading"
    /\ connState[conn] \in {"broken", "closed"}
    /\ handler' = [handler EXCEPT ![conn].pc = "unregistering"]
    /\ chans' = [chans EXCEPT !.unregister = Append(@, conn)]
    /\ UNCHANGED <<Clients, UserClients, ConnToUser, connState, msgs, last>>

NextMsg(m) ==
    /\ msgs[m].at = "unsent"
    /\ IF m = 1 THEN TRUE ELSE msgs[m - 1].at # "unsent"

(* A goroutine runs s.wsHub.Broadcast <- msg: its send starts and blocks.      *)
BroadcastSend(m) ==
    /\ NextMsg(m)
    /\ msgs' = [msgs EXCEPT ![m] = [kind |-> "broadcast", users |-> <<>>,
                                    at |-> "queued", enqReg |-> Clients]]
    /\ chans' = [chans EXCEPT !.broadcast = Append(@, m)]
    /\ UNCHANGED <<Clients, UserClients, ConnToUser, connState, handler, last>>

(* Hub.SendToUsers(userIDs, message): h.TargetedSend <- &TargetedMessage{...}  *)
SendToUsers(m, userIDs) ==
    /\ NextMsg(m)
    /\ msgs' = [msgs EXCEPT ![m] = [kind |-> "targeted", users |-> userIDs,
                                    at |-> "queued", enqReg |-> {}]]
    /\ chans' = [chans EXCEPT !.targeted = Append(@, m)]
    /\ UNCHANGED <<Clients, UserClients, ConnToUser, connState, handler, last>>

\* Hub.Run is the only receiver of the four channels and handles one value at
\* a time: a receive and the locked section that follows it are one step.  (A
\* RegisterWithUser that gets the mutex between the two has the effect of one
\* that ran just before the receive.)  Senders blocked on one channel are
\* served in the order they arrived; select picks any channel that has one.
Receive(ch) == chans' = [chans EXCEPT ![ch] = Tail(@)]

(* case conn := <-h.Register: h.Clients[conn] = true                           *)
HubRegister ==
    /\ chans.register # <<>>
    /\ Receive("register")
    /\ handler' = [handler EXCEPT ![Head(chans.register)].pc = "reading"]
    /\ Clients' = Clients \cup {Head(chans.register)}
    /\ UNCHANGED <<UserClients, ConnToUser, connState, msgs, last>>

(* case conn := <-h.Unregister                                                 *)
HubUnregister ==
    /\ chans.unregister # <<>>
    /\ Receive("unregister")
    /\ handler' = [handler EXCEPT ![Head(chans.unregister)].pc = "exited"]
    /\ SetRegistry(DoUnregister(Registry, Head(chans.unregister)))
    /\ UNCHANGED <<msgs, last>>

\* The connections whose Unregister the Hub has received and handled.
Unregistered == {c \in Conns : handler[c].pc = "exited"}

\* What the dispatch of payload m did, kept until the next dispatch: the
\* connections registered when the sender started its send (enqReg), the ones
\* the payload is for when the dispatch starts (dispReg), the ones unregistered
\* by then (exited), the writes made, the connections whose write succeeded,
\* and those that got the payload of the dispatch before this one (prevGot).
Dispatched(m, registered, d) ==
    /\ msgs' = [msgs EXCEPT ![m].at = "done", ![m].enqReg = {}]
    /\ last' = [msg |-> m, kind |-> msgs[m].kind, enqReg |-> msgs[m].enqReg,
                dispReg |-> registered, exited |-> Unregistered,
                writes |-> d.writes, got |-> d.got, prevGot |-> last.got]

(* case message := <-h.Broadcast                                               *)
HubBroadcast ==
    /\ chans.broadcast # <<>>
    /\ Receive("broadcast")
    /\ LET d == BroadcastLoop([reg |-> Registry, todo |-> Clients,
                               writes |-> <<>>, got |-> {}], FALSE)
       IN  /\ SetRegistry(d.reg)
           /\ Dispatched(Head(chans.broadcast), Clients, d)
    /\ UNCHANGED handler

\* The connections registered under one of the users of a list.
ConnsOf(userIDs) ==
    {c \in DOMAIN ConnToUser : \E i \in 1..Len(userIDs) : ConnToUser[c] = userIDs[i]}

(* case targeted := <-h.TargetedSend                                           *)
HubTargeted ==
    /\ chans.targeted # <<>>
    /\ Receive("targeted")
    /\ LET m == Head(chans.targeted)
           d == TargetedLoop([reg |-> Registry, writes |-> <<>>, got |-> {}],
                             msgs[m].users)
       IN  /\ SetRegistry(d.reg)
           /\ Dispatched(m, ConnsOf(msgs[m].users), d)
    /\ UNCHANGED handler

\* The payloads the goroutine started by RecordTransaction submits, in the
\* order of its two send statements.
Payloads_FinancialFirst == <<"financial_update", "stock_update">>

Payloads == <<"stock_update", "financial_update">>

\* NewHub(), and the goroutine of one RecordTransaction about to run.
NotifierStart ==
    /\ Clients = {}
    /\ UserClients = <<>>
    /\ ConnToUser = <<>>
    /\ connState = [c \in 1..MaxConns |-> "none"]
    /\ handler = [c \in 1..MaxConns |-> [pc |-> "new", user |-> Anonymous]]
    /\ chans = [register |-> <<>>, unregister |-> <<>>, broadcast |-> <<>>, targeted |-> <<>>]
    /\ msgs = [m \in DOMAIN Payloads |-> NoMsg]
    /\ last = NoDispatch

(* The goroutine's next statement, s.wsHub.Broadcast <- stockMsg or then       *)
(* s.wsHub.Broadcast <- finMsg: it is reached when the send before it has      *)
(* returned, that is when the Hub has received that payload.                   *)
NotifierSend(m) ==
    /\ \A k \in 1..(m - 1) : msgs[k].at = "done"
    /\ BroadcastSend(m)

NotifierNext ==
    \/ \E conn \in Conns, u \in Users : RegisterWithUser(conn, u) /\ UNCHANGED notHub
    \/ \E conn \in Conns : RegisterSend(conn) /\ UNCHANGED notHub
    \/ \E conn \in Conns : PeerGone(conn) /\ UNCHANGED notHub
    \/ \E conn \in Conns : ReadFails(conn) /\ UNCHANGED notHub
    \/ \E m \in DOMAIN Payloads : NotifierSend(m) /\ UNCHANGED notHub
    \/ HubRegister /\ UNCHANGED notHub
    \/ HubUnregister /\ UNCHANGED notHub
    \/ HubBroadcast /\ UNCHANGED notHub

HubNext ==
    \/ \E conn \in Conns, u \in Users : RegisterWithUser(conn, u) /\ UNCHANGED notHub
    \/ \E conn \in Conns : RegisterSend(conn) /\ UNCHANGED notHub
    \/ \E conn \in Conns : PeerGone(conn) /\ UNCHANGED notHub
    \/ \E conn \in Conns : ReadFails(conn) /\ UNCHANGED notHub
    \/ \E m \in Msgs : BroadcastSend(m) /\ UNCHANGED notHub
    \/ \E m \in Msgs, ul \in UserLists : SendToUsers(m, ul) /\ UNCHANGED notHub
    \/ HubRegister /\ UNCHANGED notHub
    \/ HubUnregister /\ UNCHANGED notHub
    \/ HubBroadcast /\ UNCHANGED notHub
    \/ HubTargeted /\ UNCHANGED notHub

(***************************************************************************)
(*                       Claims about the websocket Hub                    *)
(***************************************************************************)

C6_TargetedWritesToAllOfTheUsers ==
    last.kind = "targeted" => Range(last.writes) = last.dispReg

\* C7: a dispatch, broadcast or targeted, attempts no write to a connection
\* whose Unregister the Hub handled before it.
C7_NoWriteAfterUnregister ==
    Range(last.writes) \cap last.exited = {}

\* A dispatch that wrote to some connection after another was unregistered.
C7_Witness ==
    /\ last.exited # {}
    /\ last.writes # <<>>

(***************************************************************************)
(*                              STOCK LEDGER                               *)
(***************************************************************************)

\* Bounds of the ledger model.
MaxCalls == 2          \* invocations per behaviour
MaxQty == 1            \* request quantities are 0..MaxQty
MaxInitStock == 1      \* the product row starts with a stock in 0..MaxInitStock
MaxFaults == 1         \* injected persistence failures per behaviour

Calls == 1..MaxCalls
Quantities == 0..MaxQty

\* The one stored product, and an id no row has.
ProductID == 1
MissingID == 2
ProductIDs == {ProductID, MissingID}

TxIn == "IN"
TxOut == "OUT"

\* The stock an UpdateProduct request may carry: Product.Stock is an int with no
\* validation tag, and UpdateProduct validates nothing.
Stocks == (0 - 1)..MaxQty

\* Initial products.price of the stored row.
UnitPrice == 3

\* Prices an UpdateProduct request may carry.
Prices == {UnitPrice, UnitPrice + 1}

IdleCall ==
    [op |-> "none", pid |-> 0, type |-> "", qty |-> 0, reqStock |-> 0, reqPrice |-> 0,
     pc |-> "idle", newStock |-> 0, total |-> 0, result |-> "", spawned |-> FALSE]

\* validate:"required,oneof=IN OUT" on Type, validate:"required,gt=0" on
\* Quantity, validate:"uuid_required" on ProductID.
ValidTransaction(pid, type, qty) ==
    /\ pid \in ProductIDs
    /\ type \in {TxIn, TxOut}
    /\ qty > 0

\* Mutant: the comparison is off by one.
InsufficientStock_OffByOne(type, cur, qty) ==
    type = TxOut /\ cur + 1 < qty

\* if product.Stock < req.Quantity { return "insufficient stock remaining" }
InsufficientStock(type, cur, qty) ==
    type = TxOut /\ cur < qty

\* Mutant: OUT adds the quantity as IN does.
NewStock_AlwaysAdds(type, cur, qty) == cur + qty

\* newStock := product.Stock; += Quantity for IN, -= Quantity for OUT.
NewStock(type, cur, qty) ==
    IF type = TxIn THEN cur + qty
    ELSE IF type = TxOut THEN cur - qty
    ELSE cur

\* req.TotalAmount = product.Price * int64(req.Quantity)
\* Mutant: no snapshot is taken and the column keeps its zero value.
TotalAmount_NoSnapshot(p, qty) == 0

\* req.TotalAmount = product.Price * int64(req.Quantity)
TotalAmount(p, qty) == p * qty

\* The total_amount a request body may carry.
Amounts == {0, UnitPrice + 4}

\* tx.Set("gorm:query_option", "FOR UPDATE").First(...): gorm.io/gorm (v2, the
\* version whose gorm.DeletedAt BaseModel uses) never reads the v1 setting
\* "gorm:query_option"; the statement sent is a plain SELECT, which takes no row
\* lock and does not wait for one (PostgreSQL READ COMMITTED).
SelectLocksRow == FALSE

\* Mutant: UpdateStock is given the plain handle (s.db) instead of tx.
UpdateStockHandle_PlainDb == "db"

\* The handle productRepo.UpdateStock is given: the unit of work (tx).
UpdateStockHandle == "tx"

\* A call that returned an error before or instead of its writes: what is kept
\* of it is the operation and the error.
Rejected(op, res) == [IdleCall EXCEPT !.op = op, !.pc = "done", !.result = res]

Finish(c, res) ==
    IF res = "db_error"
    THEN [Rejected(call[c].op, res) EXCEPT !.spawned = call[c].spawned]
    ELSE [call[c] EXCEPT !.pc = "done", !.result = res, !.newStock = 0, !.total = 0]

InFlight(c) == call[c].pc \in {"read", "updated", "inserted", "saved"}

\* Another unit of work is open when call c opens its own.
OthersOpen(c) == \E d \in Calls \ {c} : InFlight(d)

\* A SELECT of the row can proceed: always, unless it is a locking read and
\* another unit of work holds the row.
CanRead(c) == SelectLocksRow => rowLock \in {0, c}

LedgerStart ==
    /\ stock \in 0..MaxInitStock
    /\ stock0 = stock
    /\ price = UnitPrice
    /\ ledger = {}
    /\ call = [c \in Calls |-> IdleCall]
    /\ rowLock = 0
    /\ faults = 0
    /\ overlap = FALSE
    /\ stockWrites = {}

\* Calls are numbered in the order they start.
MayStart(c) ==
    /\ call[c].pc = "idle"
    /\ IF c = 1 THEN TRUE ELSE call[c - 1].pc # "idle"

(* RecordTransaction, up to and including the stock computation: validation,  *)
(* the SELECT of the product row, TotalAmount, the OUT check, newStock.        *)
RecordTransaction_Read(c) ==
    /\ MayStart(c)
    /\ \E pid \in ProductIDs, type \in {TxIn, TxOut}, qty \in Quantities, amount \in Amounts :
        LET req == [IdleCall EXCEPT !.op = "RT", !.pid = pid, !.type = type, !.qty = qty,
                                    !.total = amount]
        IN
        IF ~ValidTransaction(pid, type, qty)
        THEN /\ call' = [call EXCEPT ![c] = Rejected("RT", "validation")]
             /\ UNCHANGED <<rowLock, overlap>>
        ELSE /\ CanRead(c)
             /\ IF pid # ProductID
                THEN /\ call' = [call EXCEPT ![c] = Rejected("RT", "not_found")]
                     /\ UNCHANGED <<rowLock, overlap>>
                ELSE IF InsufficientStock(type, stock, qty)
                THEN /\ call' = [call EXCEPT ![c] =
                            [req EXCEPT !.pc = "done", !.result = "insufficient", !.total = 0]]
                     /\ UNCHANGED <<rowLock, overlap>>
                ELSE /\ call' = [call EXCEPT ![c] =
                            [req EXCEPT !.pc = "read",
                                        !.newStock = NewStock(type, stock, qty),
                                        !.total = TotalAmount(price, qty)]]
                     /\ rowLock' = IF SelectLocksRow THEN c ELSE rowLock
                     /\ overlap' = (overlap \/ OthersOpen(c))
    /\ UNCHANGED <<stock, price, ledger, stock0, faults, stockWrites>>

(* productRepo.UpdateStock(tx, product.ID, newStock, userID): an UPDATE of the *)
(* row; it waits while another unit of work holds the row.  Given the unit of  *)
(* work it is pending until the commit; given the plain handle it is its own   *)
(* autocommitted statement.                                                    *)
RecordTransaction_UpdateStock(c) ==
    /\ call[c].op = "RT" /\ call[c].pc = "read"
    /\ rowLock \in {0, c}
    /\ call' = [call EXCEPT ![c].pc = "updated"]
    /\ IF UpdateStockHandle = "tx"
       THEN /\ rowLock' = c
            /\ UNCHANGED <<stock, stockWrites>>
       ELSE /\ stock' = call[c].newStock
            /\ stockWrites' = stockWrites \cup {c}
            /\ UNCHANGED rowLock
    /\ UNCHANGED <<price, ledger, stock0, faults, overlap>>

(* tx.Create(req): the INSERT of the ledger entry inside the unit of work;     *)
(* then the callback starts the goroutine that submits the stock_update and    *)
(* the financial_update payloads to the Hub, and returns nil.                  *)
RecordTransaction_Insert(c) ==
    /\ call[c].op = "RT" /\ call[c].pc = "updated"
    /\ call' = [call EXCEPT ![c].pc = "inserted", ![c].spawned = TRUE]
    /\ UNCHANGED <<stock, price, ledger, rowLock, stock0, faults, overlap, stockWrites>>

\* The row tx.Create(req) inserts: req with the TotalAmount snapshot.
LedgerEntry(c) ==
    [id |-> c, pid |-> call[c].pid, type |-> call[c].type,
     qty |-> call[c].qty, total |-> call[c].total]

(* db.Transaction commits when the callback returns nil: the pending stock     *)
(* write and the pending ledger entry become visible together.                 *)
RecordTransaction_Commit(c) ==
    /\ call[c].op = "RT" /\ call[c].pc = "inserted"
    /\ IF UpdateStockHandle = "tx"
       THEN stock' = call[c].newStock /\ stockWrites' = stockWrites \cup {c}
       ELSE UNCHANGED <<stock, stockWrites>>
    /\ ledger' = ledger \cup {LedgerEntry(c)}
    /\ call' = [call EXCEPT ![c] = Finish(c, "ok")]
    /\ rowLock' = IF rowLock = c THEN 0 ELSE rowLock
    /\ UNCHANGED <<price, stock0, faults, overlap>>

(* A persistence failure of the UPDATE, of the INSERT or of the COMMIT: the    *)
(* callback returns the error (or Commit does) and db.Transaction rolls back.  *)
RecordTransaction_Fail(c) ==
    /\ call[c].op = "RT" /\ InFlight(c)
    /\ faults < MaxFaults
    /\ (call[c].pc = "read") => rowLock \in {0, c}
    /\ faults' = faults + 1
    /\ call' = [call EXCEPT ![c] = Finish(c, "db_error")]
    /\ rowLock' = IF rowLock = c THEN 0 ELSE rowLock
    /\ UNCHANGED <<stock, price, ledger, stock0, overlap, stockWrites>>

(* UpdateProduct, up to the field assignments: the SELECT of the row, then     *)
(* existing.Stock = req.Stock, existing.Price = req.Price, ...                 *)
UpdateProduct_Read(c) ==
    /\ MayStart(c)
    /\ CanRead(c)
    /\ \E pid \in ProductIDs, rs \in Stocks, rp \in Prices :
        LET req == [IdleCall EXCEPT !.op = "UP", !.pid = pid, !.reqStock = rs, !.reqPrice = rp]
        IN
        IF pid # ProductID
        THEN /\ call' = [call EXCEPT ![c] = Rejected("UP", "not_found")]
             /\ UNCHANGED <<rowLock, overlap>>
        ELSE /\ call' = [call EXCEPT ![c] = [req EXCEPT !.pc = "read", !.newStock = rs]]
             /\ rowLock' = IF SelectLocksRow THEN c ELSE rowLock
             /\ overlap' = (overlap \/ OthersOpen(c))
    /\ UNCHANGED <<stock, price, ledger, stock0, faults, stockWrites>>

(* productRepo.UpdateStock(tx, existing.ID, existing.Stock, userID) succeeds:  *)
(* the stock column (and updated_by) is pending in the unit of work; then the  *)
(* callback starts the goroutine that submits the product_updated payload to   *)
(* the Hub, and returns nil.                                                   *)
UpdateProduct_UpdateStock(c) ==
    /\ call[c].op = "UP" /\ call[c].pc = "read"
    /\ rowLock \in {0, c}
    /\ call' = [call EXCEPT ![c].pc = "updated", ![c].spawned = TRUE]
    /\ rowLock' = c
    /\ UNCHANGED <<stock, price, ledger, stock0, faults, overlap, stockWrites>>

(* productRepo.UpdateStock fails: the callback returns tx.Save(&existing).Error, *)
(* a write of the whole row, which may fail as well.                            *)
UpdateProduct_SaveFallback(c) ==
    /\ call[c].op = "UP" /\ call[c].pc = "read"
    /\ rowLock \in {0, c}
    /\ faults < MaxFaults
    /\ faults' = faults + 1
    /\ \E saved \in BOOLEAN :
        IF saved
        THEN call' = [call EXCEPT ![c].pc = "saved"] /\ rowLock' = c
        ELSE /\ call' = [call EXCEPT ![c] = Finish(c, "db_error")]
             /\ rowLock' = IF rowLock = c THEN 0 ELSE rowLock
    /\ UNCHANGED <<stock, price, ledger, stock0, overlap, stockWrites>>

(* The commit of UpdateProduct's unit of work: after UpdateStock only the stock *)
(* column was written, after the Save fallback the whole row.                   *)
UpdateProduct_Commit(c) ==
    /\ call[c].op = "UP" /\ call[c].pc \in {"updated", "saved"}
    /\ stock' = call[c].newStock
    /\ price' = IF call[c].pc = "saved" THEN call[c].reqPrice ELSE price
    /\ stockWrites' = stockWrites \cup {c}
    /\ call' = [call EXCEPT ![c] =
                  Finish(c, IF call[c].pc = "saved" THEN "ok_saved" ELSE "ok")]
    /\ rowLock' = IF rowLock = c THEN 0 ELSE rowLock
    /\ UNCHANGED <<ledger, stock0, faults, overlap>>

(* The commit of UpdateProduct's unit of work fails: rollback.                 *)
UpdateProduct_Fail(c) ==
    /\ call[c].op = "UP" /\ call[c].pc \in {"updated", "saved"}
    /\ faults < MaxFaults
    /\ faults' = faults + 1
    /\ call' = [call EXCEPT ![c] = Finish(c, "db_error")]
    /\ rowLock' = IF rowLock = c THEN 0 ELSE rowLock
    /\ UNCHANGED <<stock, price, ledger, stock0, overlap, stockWrites>>

LedgerNext ==
    \/ \E c \in Calls : RecordTransaction_Read(c) /\ UNCHANGED notLedger
    \/ \E c \in Calls : RecordTransaction_UpdateStock(c) /\ UNCHANGED notLedger
    \/ \E c \in Calls : RecordTransaction_Insert(c) /\ UNCHANGED notLedger
    \/ \E c \in Calls : RecordTransaction_Commit(c) /\ UNCHANGED notLedger
    \/ \E c \in Calls : RecordTransaction_Fail(c) /\ UNCHANGED notLedger
    \/ \E c \in Calls : UpdateProduct_Read(c) /\ UNCHANGED notLedger
    \/ \E c \in Calls : UpdateProduct_UpdateStock(c) /\ UNCHANGED notLedger
    \/ \E c \in Calls : UpdateProduct_SaveFallback(c) /\ UNCHANGED notLedger
    \/ \E c \in Calls : UpdateProduct_Commit(c) /\ UNCHANGED notLedger
    \/ \E c \in Calls : UpdateProduct_Fail(c) /\ UNCHANGED notLedger

(***************************************************************************)
(*                          SHIFT-OVERLAP DETECTOR                         *)
(***************************************************************************)

\* Bound: how many of the times of day below the time ranges are drawn from.
MaxTimes == 11

\* An HH:MM string is the sequence of its five characters.
T(h1, h2, m1, m2) == <<h1, h2, ":", m1, m2>>

TimeList ==
    << T("1","0","0","0"), T("1","4","0","0"), T("1","3","0","0"), T("1","8","0","0"),
       T("2","2","0","0"), T("0","6","0","0"), T("0","5","0","0"), T("0","9","0","0"),
       T("0","7","0","0"), T("0","0","0","0"), T("2","3","5","9"), T("1","3","3","0"),
       T("0","0","0","1"), T("1","2","4","5") >>

Times == {TimeList[i] : i \in 1..(IF MaxTimes < Len(TimeList) THEN MaxTimes ELSE Len(TimeList))}

\* The byte of a character.
Byte(ch) ==
    CASE ch = "0" -> 48 [] ch = "1" -> 49 [] ch = "2" -> 50 [] ch = "3" -> 51
      [] ch = "4" -> 52 [] ch = "5" -> 53 [] ch = "6" -> 54 [] ch = "7" -> 55
      [] ch = "8" -> 56 [] ch = "9" -> 57 [] ch = ":" -> 58

\* timeStr[i]-'0': a subtraction of bytes, modulo 2^8.
MinusZero(ch) == (Byte(ch) - Byte("0") + 256) % 256

\* privilege_repo.go timeToMinutes: character arithmetic on "HH:MM".
timeToMinutes(timeStr) ==
    IF Len(timeStr) >= 5
    THEN (MinusZero(timeStr[1]) * 10 + MinusZero(timeStr[2])) * 60
         + MinusZero(timeStr[4]) * 10 + MinusZero(timeStr[5])
    ELSE 0

IsDigit(ch) == Byte(ch) >= 48 /\ Byte(ch) <= 57

RECURSIVE Atoi(_)
\* strconv.Atoi of an unsigned decimal; 0 (with an error that the caller
\* drops) for anything else.
Atoi(str) ==
    IF str = <<>> \/ \E i \in 1..Len(str) : ~IsDigit(str[i]) THEN 0
    ELSE IF Len(str) = 1 THEN Byte(str[1]) - 48
    ELSE Atoi(SubSeq(str, 1, Len(str) - 1)) * 10 + (Byte(str[Len(str)]) - 48)

\* main.go timeToMinutes: strings.Split(timeStr, ":") and strconv.Atoi.
serviceTimeToMinutes(timeStr) ==
    LET colons == {i \in 1..Len(timeStr) : timeStr[i] = ":"}
    IN  IF Cardinality(colons) # 1 THEN 0
        ELSE LET k == CHOOSE i \in colons : TRUE
             IN  Atoi(SubSeq(timeStr, 1, k - 1)) * 60
                 + Atoi(SubSeq(timeStr, k + 1, Len(timeStr)))

\* main.go isOvernight: endMinutes <= startMinutes
isOvernight(startTime, endTime) ==
    serviceTimeToMinutes(endTime) <= serviceTimeToMinutes(startTime)

\* Mutant: ranges that only touch count as overlapping.
DirectOverlap_TouchingCounts(s1, e1, s2, e2) == ~(e1 < s2 \/ e2 < s1)

\* !(e1 <= s2 || e2 <= s1)
DirectOverlap(s1, e1, s2, e2) == ~(e1 <= s2 \/ e2 <= s1)

timeRangesOverlap(start1, end1, overnight1, start2, end2, overnight2) ==
    LET s1 == timeToMinutes(start1)
        s2 == timeToMinutes(start2)
        e1 == timeToMinutes(end1) + (IF overnight1 THEN 1440 ELSE 0)
        e2 == timeToMinutes(end2) + (IF overnight2 THEN 1440 ELSE 0)
    IN  IF overnight1 \/ overnight2
        THEN IF DirectOverlap(s1, e1, s2, e2) THEN TRUE
             ELSE IF overnight1 /\ ~overnight2 /\ s2 < e1 - 1440 THEN TRUE
             ELSE IF overnight2 /\ ~overnight1 /\ s1 < e2 - 1440 THEN TRUE
             ELSE FALSE
        ELSE DirectOverlap(s1, e1, s2, e2)

NoProbe == [start1 |-> <<>>, end1 |-> <<>>, start2 |-> <<>>, end2 |-> <<>>,
            done |-> FALSE, answer |-> FALSE]

\* Two time ranges, not yet compared.
IntervalStart ==
    \E a \in Times, b \in Times, c \in Times, d \in Times :
        probe = [start1 |-> a, end1 |-> b, start2 |-> c, end2 |-> d,
                 done |-> FALSE, answer |-> FALSE]

(* The call FindOverlappingShifts makes for one stored shift: the overnight    *)
(* flags are the ones isOvernight computed for the two shifts.                 *)
CompareTimeRanges ==
    /\ probe.start1 # <<>>
    /\ ~probe.done
    /\ probe' = [probe EXCEPT !.done = TRUE, !.answer =
                    timeRangesOverlap(probe.start1, probe.end1,
                                      isOvernight(probe.start1, probe.end1),
                                      probe.start2, probe.end2,
                                      isOvernight(probe.start2, probe.end2))]

IntervalNext == CompareTimeRanges /\ UNCHANGED notInterval

(***************************************************************************)
(*                              SHIFT SCHEDULER                            *)
(***************************************************************************)

\* Bounds of the scheduler model.
MaxShiftCalls == 2      \* CreateShift / UpdateShift / DeleteShift calls per behaviour
MaxDay == 2             \* dates are day numbers; Today is day 1

ShiftCalls == 1..MaxShiftCalls

\* The Jakarta calendar date at which the calls run.
Today == 1

\* The times of day requests carry, and a string the format check refuses.
ShiftTimes == {T("0","6","0","0"), T("1","4","0","0"), T("2","2","0","0")}
BadTime == T("2","4","0","0")
ReqTimes == ShiftTimes \cup {BadTime}

\* The dates requests carry: yesterday .. MaxDay, and an unparsable string.
BadDate == 0 - 1
ReqDays == {BadDate} \cup 0..MaxDay

\* The users table as the scheduler sees it (is_active), a well-formed id of
\* no user, and a string that is no uuid.
UserActive == [u1 |-> TRUE, u2 |-> TRUE, u3 |-> FALSE]
BadUserID == "not-a-uuid"
ReqUsers == {"u1", "u2", "u3", "u9", BadUserID}

\* validateTimeFormat: ^([01][0-9]|2[0-3]):([0-5][0-9])$
validateTimeFormat(t) ==
    /\ Len(t) = 5
    /\ \/ t[1] \in {"0", "1"} /\ IsDigit(t[2])
       \/ t[1] = "2" /\ t[2] \in {"0", "1", "2", "3"}
    /\ t[3] = ":"
    /\ t[4] \in {"0", "1", "2", "3", "4", "5"}
    /\ IsDigit(t[5])

\* validateDateFormat: time.ParseInLocation("2006-01-02", dateStr, jakartaLoc)
validateDateFormat(d) == d # BadDate

\* startDate.Before(time.Now().In(jakartaLoc).Truncate(24 * time.Hour)).
\* Truncate rounds the instant down to a multiple of 24h since the zero time,
\* which is midnight UTC, 07:00 in Jakarta: before 07:00 Jakarta time it gives
\* 07:00 of the day before, from 07:00 on it gives 07:00 of the same day.  The
\* parsed start date is midnight, Jakarta time, of its day.
StartDateInPast(d, early) == IF early THEN d < Today ELSE d <= Today

\* start_date <= endDate AND end_date >= startDate
DateRangesOverlap(aStart, aEnd, bStart, bEnd) == aStart <= bEnd /\ aEnd >= bStart

NoRow == [user |-> "", start |-> <<>>, end |-> <<>>, startDate |-> 0, endDate |-> 0,
          overnight |-> FALSE, deleted |-> FALSE]

\* The rows a query with gorm's soft-delete filter sees.
Live(table) == {i \in 1..Len(table) : ~table[i].deleted}

\* Mutant: the query without the "id != ?" condition.
FindOverlappingShifts_IncludesSelf(table, r, excludeID) ==
    {i \in Live(table) :
        /\ table[i].user = r.user
        /\ DateRangesOverlap(table[i].startDate, table[i].endDate, r.startDate, r.endDate)
        /\ timeRangesOverlap(r.start, r.end, r.overnight,
                             table[i].start, table[i].end, table[i].overnight)}

\* shiftRepo.FindOverlappingShifts(userID, startDate, endDate, startTime,
\* endTime, isOvernight, excludeID): the ids of the rows found; excludeID 0
\* stands for nil.
FindOverlappingShifts(table, r, excludeID) ==
    {i \in Live(table) :
        /\ table[i].user = r.user
        /\ DateRangesOverlap(table[i].startDate, table[i].endDate, r.startDate, r.endDate)
        /\ i # excludeID
        /\ timeRangesOverlap(r.start, r.end, r.overnight,
                             table[i].start, table[i].end, table[i].overnight)}

\* Mutant: a user id that names no user is reported as a user who is not
\* active.
UserCheck_NoExistenceTest(u) ==
    IF u = BadUserID THEN "bad_user_id"
    ELSE IF u \notin DOMAIN UserActive THEN "user_not_active"
    ELSE IF ~UserActive[u] THEN "user_not_active"
    ELSE "ok"

\* The checks CreateShift and UpdateShift make on the user id: uuid.Parse,
\* userRepo.FindByID, user.IsActive.
UserCheck(u) ==
    IF u = BadUserID THEN "bad_user_id"
    ELSE IF u \notin DOMAIN UserActive THEN "user_not_found"
    ELSE IF ~UserActive[u] THEN "user_not_active"
    ELSE "ok"

\* CreateShift, steps 1 to 9: the first check that fails, or "ok".
CreateChecks(table, req, early) ==
    IF ~validateTimeFormat(req.start) \/ ~validateTimeFormat(req.end) THEN "bad_time"
    ELSE IF req.start = req.end THEN "same_time"
    ELSE IF ~validateDateFormat(req.startDate) \/ ~validateDateFormat(req.endDate) THEN "bad_date"
    ELSE IF req.endDate < req.startDate THEN "end_before_start"
    ELSE IF StartDateInPast(req.startDate, early) THEN "start_in_past"
    ELSE IF UserCheck(req.user) # "ok" THEN UserCheck(req.user)
    ELSE IF FindOverlappingShifts(table,
                [req EXCEPT !.overnight = isOvernight(req.start, req.end)], 0) # {}
         THEN "conflict"
    ELSE "ok"

\* A request body of UpdateShift: each field is given or left out.
Patches ==
    [hasStart : BOOLEAN, start : ReqTimes, hasEnd : BOOLEAN, end : ReqTimes,
     hasDates : {"none"}, startDate : {0}, endDate : {0}, hasUser : {FALSE}, user : {""}]
    \cup
    [hasStart : {FALSE}, start : {BadTime}, hasEnd : {FALSE}, end : {BadTime},
     hasDates : {"start", "end", "both"}, startDate : ReqDays, endDate : ReqDays,
     hasUser : {FALSE}, user : {""}]
    \cup
    [hasStart : {FALSE}, start : {BadTime}, hasEnd : {FALSE}, end : {BadTime},
     hasDates : {"none"}, startDate : {0}, endDate : {0}, hasUser : {TRUE}, user : ReqUsers]

\* UpdateShift, step 2: the stored values with the given fields laid over.
Merge(row, p) ==
    [row EXCEPT !.start = IF p.hasStart THEN p.start ELSE @,
                !.end = IF p.hasEnd THEN p.end ELSE @,
                !.startDate = IF p.hasDates \in {"start", "both"} THEN p.startDate ELSE @,
                !.endDate = IF p.hasDates \in {"end", "both"} THEN p.endDate ELSE @,
                !.user = IF p.hasUser THEN p.user ELSE @]

\* UpdateShift, steps 2 to 4, for the stored row with the given id.
UpdateChecks(table, id, p, early) ==
    LET m == Merge(table[id], p)
    IN  IF (p.hasStart /\ ~validateTimeFormat(p.start)) \/ (p.hasEnd /\ ~validateTimeFormat(p.end))
        THEN "bad_time"
        ELSE IF m.start = m.end THEN "same_time"
        ELSE IF \/ p.hasDates \in {"start", "both"} /\ ~validateDateFormat(p.startDate)
                \/ p.hasDates \in {"end", "both"} /\ ~validateDateFormat(p.endDate)
             THEN "bad_date"
        ELSE IF m.endDate < m.startDate THEN "end_before_start"
        ELSE IF p.hasDates \in {"start", "both"} /\ StartDateInPast(m.startDate, early)
             THEN "start_in_past"
        ELSE IF p.hasUser /\ UserCheck(p.user) # "ok" THEN UserCheck(p.user)
        ELSE IF FindOverlappingShifts(table,
                    [m EXCEPT !.overnight = isOvernight(m.start, m.end)], id) # {}
             THEN "conflict"
        ELSE "ok"

CreateRequests ==
    [user : ReqUsers, start : ReqTimes, end : ReqTimes, startDate : ReqDays, endDate : ReqDays,
     overnight : {FALSE}, deleted : {FALSE}]

UpdateRequests ==
    {p \in Patches :
        /\ ~p.hasStart => p.start = BadTime
        /\ ~p.hasEnd => p.end = BadTime
        /\ p.hasDates = "start" => p.endDate = 0
        /\ p.hasDates = "end" => p.startDate = 0}

IdleShiftCall == [op |-> "none", pc |-> "idle", result |-> "", id |-> 0, row |-> NoRow,
                  from |-> ""]

\* NewShiftService over an empty shifts table; the calls run either before or
\* after 07:00, Jakarta time, of day Today.
ShiftStart ==
    /\ shifts = <<>>
    /\ shiftCall = [c \in ShiftCalls |-> IdleShiftCall]
    /\ nowEarly \in BOOLEAN
    /\ notices = {}

MayStartShift(c) ==
    /\ shiftCall[c].pc = "idle"
    /\ IF c = 1 THEN TRUE ELSE shiftCall[c - 1].pc # "idle"

Returned(c, op, res, id) ==
    shiftCall' = [shiftCall EXCEPT ![c] =
                     [IdleShiftCall EXCEPT !.op = op, !.pc = "done", !.result = res, !.id = id]]

(* CreateShift up to the conflict check (steps 1 to 9).                        *)
CreateShift_Check(c) ==
    /\ MayStartShift(c)
    /\ \E req \in CreateRequests :
        LET res == CreateChecks(shifts, req, nowEarly)
        IN  IF res # "ok" THEN Returned(c, "create", res, 0)
            ELSE shiftCall' = [shiftCall EXCEPT ![c] =
                    [IdleShiftCall EXCEPT !.op = "create", !.pc = "checked",
                        !.row = [req EXCEPT !.overnight = isOvernight(req.start, req.end)]]]
    /\ UNCHANGED <<shifts, nowEarly, notices>>

(* CreateShift from step 11: shiftRepo.Create (an INSERT, which may fail), the *)
(* reload, and go s.notifyShiftCreated(shift, user).                           *)
CreateShift_Insert(c) ==
    /\ shiftCall[c].op = "create" /\ shiftCall[c].pc = "checked"
    /\ \E stored \in BOOLEAN :
        IF stored
        THEN /\ shifts' = Append(shifts, shiftCall[c].row)
             /\ Returned(c, "create", "ok", Len(shifts) + 1)
             /\ notices' = notices \cup
                    {[action |-> "shift_created", user |-> shiftCall[c].row.user,
                      id |-> Len(shifts) + 1, by |-> c]}
        ELSE /\ Returned(c, "create", "db_error", 0)
             /\ UNCHANGED <<shifts, notices>>
    /\ UNCHANGED nowEarly

\* The ids a request may name: those of the stored rows and one that was never
\* stored.
ShiftIDs == 1..(Len(shifts) + 1)

(* UpdateShift up to the conflict check: FindByID, the merge, steps 2 to 4.    *)
UpdateShift_Check(c) ==
    /\ MayStartShift(c)
    /\ \E id \in ShiftIDs, p \in UpdateRequests :
        IF id \notin Live(shifts) THEN Returned(c, "update", "not_found", id)
        ELSE LET res == UpdateChecks(shifts, id, p, nowEarly)
                 m == Merge(shifts[id], p)
             IN  IF res # "ok" THEN Returned(c, "update", res, id)
                 ELSE shiftCall' = [shiftCall EXCEPT ![c] =
                        [op |-> "update", pc |-> "checked", result |-> "", id |-> id,
                         row |-> [m EXCEPT !.overnight = isOvernight(m.start, m.end)],
                         from |-> shifts[id].user]]
    /\ UNCHANGED <<shifts, nowEarly, notices>>

\* notifyShiftUpdated(shift, originalUserID, originalUser), run by call c: the
\* SendToUsers calls it makes, each to one user.
UpdateNotices(c, id, to, from) ==
    IF to # from
    THEN {[action |-> "shift_reassigned_from", user |-> from, id |-> id, by |-> c],
          [action |-> "shift_reassigned_to", user |-> to, id |-> id, by |-> c]}
    ELSE {[action |-> "shift_updated", user |-> to, id |-> id, by |-> c]}

(* UpdateShift, step 6: shiftRepo.Update is db.Save(shift), a write of the     *)
(* whole row as this call read it and changed it.  When the row was soft-      *)
(* deleted meanwhile the UPDATE matches no row; what Save does then depends on *)
(* the gorm version (nothing, or an upsert that stores the row again, not      *)
(* deleted); it reports no error in either case.                               *)
UpdateShift_Save(c) ==
    /\ shiftCall[c].op = "update" /\ shiftCall[c].pc = "checked"
    /\ LET id == shiftCall[c].id
       IN \E stored \in BOOLEAN :
            IF stored
            THEN /\ \E upsert \in BOOLEAN :
                        IF id \in Live(shifts) \/ upsert
                        THEN shifts' = [shifts EXCEPT ![id] = shiftCall[c].row]
                        ELSE UNCHANGED shifts
                 /\ shiftCall' = [shiftCall EXCEPT ![c].pc = "saved"]
            ELSE /\ Returned(c, "update", "db_error", id)
                 /\ UNCHANGED shifts
    /\ UNCHANGED <<nowEarly, notices>>

(* UpdateShift, steps 7 and 8: the reload, shiftRepo.FindByID(shift.ID), whose *)
(* error is returned, then go s.notifyShiftUpdated(shift, originalUserID,      *)
(* originalUser) with the row as the reload found it.                          *)
UpdateShift_Reload(c) ==
    /\ shiftCall[c].op = "update" /\ shiftCall[c].pc = "saved"
    /\ LET id == shiftCall[c].id
       IN IF id \in Live(shifts)
          THEN /\ notices' = notices \cup UpdateNotices(c, id, shifts[id].user, shiftCall[c].from)
               /\ Returned(c, "update", "ok", id)
          ELSE /\ Returned(c, "update", "not_found", id)
               /\ UNCHANGED notices
    /\ UNCHANGED <<shifts, nowEarly>>

(* DeleteShift: FindByID, shiftRepo.Delete (sets deleted_at), and              *)
(* go s.notifyShiftDeleted(shift).                                             *)
DeleteShift(c) ==
    /\ MayStartShift(c)
    /\ \E id \in ShiftIDs :
        IF id \notin Live(shifts)
        THEN Returned(c, "delete", "not_found", id) /\ UNCHANGED <<shifts, notices>>
        ELSE /\ shifts' = [shifts EXCEPT ![id].deleted = TRUE]
             /\ Returned(c, "delete", "ok", id)
             /\ notices' = notices \cup
                    {[action |-> "shift_cancelled", user |-> shifts[id].user, id |-> id, by |-> c]}
    /\ UNCHANGED nowEarly

ShiftNext ==
    \/ \E c \in ShiftCalls : CreateShift_Check(c) /\ UNCHANGED notShift
    \/ \E c \in ShiftCalls : CreateShift_Insert(c) /\ UNCHANGED notShift
    \/ \E c \in ShiftCalls : UpdateShift_Check(c) /\ UNCHANGED notShift
    \/ \E c \in ShiftCalls : UpdateShift_Save(c) /\ UNCHANGED notShift
    \/ \E c \in ShiftCalls : UpdateShift_Reload(c) /\ UNCHANGED notShift
    \/ \E c \in ShiftCalls : DeleteShift(c) /\ UNCHANGED notShift

\* A stored row.
Row(u, start, end, startDate, endDate) ==
    [user |-> u, start |-> start, end |-> end, startDate |-> startDate, endDate |-> endDate,
     overnight |-> isOvernight(start, end), deleted |-> FALSE]

\* Rows that earlier CreateShift calls have stored: a day shift and an
\* overnight shift of u1 and a day shift of u2, all on the day after Today,
\* and a shift of u2 that runs from Today to the day after.
SeedRows ==
    {Row("u1", T("0","6","0","0"), T("1","4","0","0"), Today + 1, Today + 1),
     Row("u1", T("2","2","0","0"), T("0","6","0","0"), Today + 1, Today + 1),
     Row("u2", T("0","6","0","0"), T("1","4","0","0"), Today + 1, Today + 1),
     Row("u2", T("1","4","0","0"), T("2","2","0","0"), Today, Today + 1)}

\* The tables of at most two such rows.  Two rows of one user that overlap are
\* among them: two CreateShift calls that run together both pass the conflict
\* check before either row is stored.
SeedTables ==
    {<<>>} \cup {<<a>> : a \in SeedRows} \cup {<<a, b>> : a \in SeedRows, b \in SeedRows}

\* The scheduler some time after it was started, with rows in the table.
ShiftSeeded ==
    /\ shifts \in SeedTables
    /\ shiftCall = [c \in ShiftCalls |-> IdleShiftCall]
    /\ nowEarly \in BOOLEAN
    /\ notices = {}

\* Calls that edit and cancel stored shifts, in any interleaving.
ShiftEditNext ==
    \/ \E c \in ShiftCalls : UpdateShift_Check(c) /\ UNCHANGED notShift
    \/ \E c \in ShiftCalls : UpdateShift_Save(c) /\ UNCHANGED notShift
    \/ \E c \in ShiftCalls : UpdateShift_Reload(c) /\ UNCHANGED notShift
    \/ \E c \in ShiftCalls : DeleteShift(c) /\ UNCHANGED notShift

\* A call that has returned, with the request it was given.
Replied(c, op, res, id, req) ==
    shiftCall' = [shiftCall EXCEPT ![c] =
                     [op |-> op, pc |-> "done", result |-> res, id |-> id, row |-> NoRow,
                      from |-> "", req |-> req]]

(* CreateShift from its first statement to its return, no other call running:  *)
(* steps 1 to 9, shiftRepo.Create, the reload and go s.notifyShiftCreated.      *)
CreateShift_Call(c) ==
    /\ shiftCall[c].pc = "idle"
    /\ \E req \in CreateRequests :
        LET res == CreateChecks(shifts, req, nowEarly)
            id == Len(shifts) + 1
        IN  IF res # "ok"
            THEN Replied(c, "create", res, 0, req) /\ UNCHANGED <<shifts, notices>>
            ELSE \E stored \in BOOLEAN :
                    IF stored
                    THEN /\ shifts' = Append(shifts,
                                [req EXCEPT !.overnight = isOvernight(req.start, req.end)])
                         /\ notices' = notices \cup
                                {[action |-> "shift_created", user |-> req.user,
                                  id |-> id, by |-> c]}
                         /\ Replied(c, "create", "ok", id, req)
                    ELSE /\ Replied(c, "create", "db_error", 0, req)
                         /\ UNCHANGED <<shifts, notices>>
    /\ UNCHANGED nowEarly

(* UpdateShift from its first statement to its return, no other call running:  *)
(* FindByID, steps 2 to 4, shiftRepo.Update, the reload and                    *)
(* go s.notifyShiftUpdated.                                                    *)
UpdateShift_Call(c) ==
    /\ shiftCall[c].pc = "idle"
    /\ \E id \in ShiftIDs, p \in UpdateRequests :
        IF id \notin Live(shifts)
        THEN Replied(c, "update", "not_found", id, p) /\ UNCHANGED <<shifts, notices>>
        ELSE LET res == UpdateChecks(shifts, id, p, nowEarly)
                 m == Merge(shifts[id], p)
             IN  IF res # "ok"
                 THEN Replied(c, "update", res, id, p) /\ UNCHANGED <<shifts, notices>>
                 ELSE \E stored \in BOOLEAN :
                        IF stored
                        THEN /\ shifts' = [shifts EXCEPT ![id] =
                                    [m EXCEPT !.overnight = isOvernight(m.start, m.end)]]
                             /\ notices' = notices \cup
                                    UpdateNotices(c, id, m.user, shifts[id].user)
                             /\ Replied(c, "update", "ok", id, p)
                        ELSE /\ Replied(c, "update", "db_error", id, p)
                             /\ UNCHANGED <<shifts, notices>>
    /\ UNCHANGED nowEarly

\* One call on the stored table, run from start to end.
ShiftSeqNext ==
    \/ CreateShift_Call(1) /\ UNCHANGED notShift
    \/ UpdateShift_Call(1) /\ UNCHANGED notShift

(***************************************************************************)
(*                                SESSIONS                                 *)
(***************************************************************************)

\* Bounds of the session model.
MaxSessCalls == 3       \* Login / ResetPassword / UpdateUser / ... calls per behaviour
MaxClock == 6           \* the clock runs from minute 0 to this minute

SessCalls == 1..MaxSessCalls

\* time.Since(*user.LastSeenAt) > 5*time.Minute
IdleLimit == 5

\* expirationHours := 24, in minutes
TokenLifetime == 24 * 60

Passwords == {"pw1", "pw2"}

\* LastSeenAt = nil
NilTime == 0 - 1

\* The one user of the model as the seed leaves it: active, never logged in.
NewUser == [password |-> "pw1", isActive |-> TRUE, tokenVersion |-> 0, lastSeenAt |-> NilTime]

IdleSessCall == [op |-> "none", pc |-> "idle", snap |-> NewUser, tok |-> 0, result |-> ""]

SessionStart ==
    /\ user = NewUser
    /\ clock = 0
    /\ sessCall = [c \in SessCalls |-> IdleSessCall]
    /\ issued = <<>>

\* jwt.ValidateToken: the signature is the server's and the token has not
\* expired.
JwtValid(t) == clock <= t.at + TokenLifetime

\* middleware.RequireAuth: a valid JWT, the user found, and
\* user.TokenVersion == claims.TokenVersion.
RequireAuth(t) == JwtValid(t) /\ user.tokenVersion = t.version

\* Mutant: ValidateToken without the comparison of the token version.
ValidateToken_AnyVersion(t) ==
    /\ JwtValid(t)
    /\ user.isActive
    /\ user.lastSeenAt # NilTime
    /\ ~(clock - user.lastSeenAt > IdleLimit)

\* authService.ValidateToken: a valid JWT, the user found and active, the
\* token version the stored one, LastSeenAt set and not older than 5 minutes.
ValidateToken(t) ==
    /\ JwtValid(t)
    /\ user.isActive
    /\ user.tokenVersion = t.version
    /\ user.lastSeenAt # NilTime
    /\ ~(clock - user.lastSeenAt > IdleLimit)

MayStartSess(c) ==
    /\ sessCall[c].pc = "idle"
    /\ IF c = 1 THEN TRUE ELSE sessCall[c - 1].pc # "idle"

\* A call that has returned: only its answer is kept.
Answered(c, res) ==
    sessCall' = [sessCall EXCEPT ![c] = [IdleSessCall EXCEPT !.pc = "done", !.result = res]]

Found(c, op, row) ==
    sessCall' = [sessCall EXCEPT ![c] = [IdleSessCall EXCEPT !.op = op, !.pc = "found", !.snap = row]]

(* Login, steps 1 to 4: FindByEmail, IsActive, CheckPassword.                  *)
Login_Find(c) ==
    /\ MayStartSess(c)
    /\ \E known \in BOOLEAN, pw \in Passwords :
        IF ~known THEN Answered(c, "invalid_credentials")
        ELSE IF ~user.isActive THEN Answered(c, "inactive")
        ELSE IF pw # user.password THEN Answered(c, "invalid_credentials")
        ELSE Found(c, "login", user)
    /\ UNCHANGED <<user, clock, issued>>

(* Login, steps 5 and 6: a new uuid as TokenVersion, LastSeenAt = now, then    *)
(* userRepo.Update(user), a db.Save of the whole row as this call read it, and *)
(* the token that carries the new version.                                     *)
Login_Save(c) ==
    /\ sessCall[c].op = "login" /\ sessCall[c].pc = "found"
    /\ \E saved \in BOOLEAN :
        IF saved
        THEN LET v == Len(issued) + 1
             IN  /\ user' = [sessCall[c].snap EXCEPT !.tokenVersion = v, !.lastSeenAt = clock]
                 /\ issued' = Append(issued, [version |-> v, at |-> clock])
                 /\ Answered(c, "ok")
        ELSE /\ Answered(c, "session_error")
             /\ UNCHANGED <<user, issued>>
    /\ UNCHANGED clock

(* ResetPassword, steps 1 to 3: FindByEmail, CheckPassword(old), SetPassword.  *)
ResetPassword_Find(c) ==
    /\ MayStartSess(c)
    /\ \E known \in BOOLEAN, old \in Passwords, new \in Passwords :
        IF ~known THEN Answered(c, "user_not_found")
        ELSE IF old # user.password THEN Answered(c, "wrong_password")
        ELSE Found(c, "reset", [user EXCEPT !.password = new])
    /\ UNCHANGED <<user, clock, issued>>

\* userRepo.Update(user): db.Save writes every column of the row from the
\* struct the call holds; it may fail.
SaveRow(c, op) ==
    /\ sessCall[c].op = op /\ sessCall[c].pc = "found"
    /\ \E saved \in BOOLEAN :
        IF saved
        THEN user' = sessCall[c].snap /\ Answered(c, "ok")
        ELSE UNCHANGED user /\ Answered(c, "db_error")
    /\ UNCHANGED <<clock, issued>>

(* ResetPassword, step 4.                                                      *)
ResetPassword_Save(c) == SaveRow(c, "reset")

(* UpdateUser, steps 2 to 8: FindByID, the email and role of the request        *)
(* checked, then the fields of the request laid over the row: is_active when   *)
(* given, the password when given.                                             *)
UpdateUser_Find(c) ==
    /\ MayStartSess(c)
    /\ \E valid \in BOOLEAN, active \in {"keep", "on", "off"}, pw \in {"keep"} \cup Passwords :
        IF ~valid THEN Answered(c, "rejected")
        ELSE Found(c, "update_user",
                   [user EXCEPT !.isActive = IF active = "keep" THEN @ ELSE active = "on",
                                !.password = IF pw = "keep" THEN @ ELSE pw])
    /\ UNCHANGED <<user, clock, issued>>

(* UpdateUser, step 9.                                                         *)
UpdateUser_Save(c) == SaveRow(c, "update_user")

(* UpdateUserPrivileges, step 1: FindByID.                                     *)
UpdateUserPrivileges_Find(c) ==
    /\ MayStartSess(c)
    /\ Found(c, "update_privileges", user)
    /\ UNCHANGED <<user, clock, issued>>

(* UpdateUserPrivileges, steps 3 and 4: the association is replaced, then      *)
(* user.UpdatedBy = updaterID; s.userRepo.Update(user).                        *)
UpdateUserPrivileges_Save(c) == SaveRow(c, "update_privileges")

(* POST /heartbeat: the RequireAuth middleware in front of the handler.        *)
Heartbeat_Auth(c) ==
    /\ MayStartSess(c)
    /\ \E i \in 1..Len(issued) :
        IF RequireAuth(issued[i])
        THEN sessCall' = [sessCall EXCEPT ![c] =
                            [IdleSessCall EXCEPT !.op = "heartbeat", !.pc = "authed", !.tok = i]]
        ELSE Answered(c, "unauthorized")
    /\ UNCHANGED <<user, clock, issued>>

(* authService.Heartbeat: userRepo.UpdateLastSeen, an UPDATE of last_seen_at   *)
(* alone; the goroutine it starts hands a user_status payload to the Hub       *)
(* (BroadcastSend) and touches no user row.                                    *)
Heartbeat(c) ==
    /\ sessCall[c].op = "heartbeat" /\ sessCall[c].pc = "authed"
    /\ user' = [user EXCEPT !.lastSeenAt = clock]
    /\ Answered(c, "ok")
    /\ UNCHANGED <<clock, issued>>

(* A minute passes.                                                            *)
Tick ==
    /\ clock < MaxClock
    /\ clock' = clock + 1
    /\ UNCHANGED <<user, sessCall, issued>>

SessionNext ==
    \/ \E c \in SessCalls : Login_Find(c) /\ UNCHANGED notSession
    \/ \E c \in SessCalls : Login_Save(c) /\ UNCHANGED notSession
    \/ \E c \in SessCalls : ResetPassword_Find(c) /\ UNCHANGED notSession
    \/ \E c \in SessCalls : ResetPassword_Save(c) /\ UNCHANGED notSession
    \/ \E c \in SessCalls : UpdateUser_Find(c) /\ UNCHANGED notSession
    \/ \E c \in SessCalls : UpdateUser_Save(c) /\ UNCHANGED notSession
    \/ \E c \in SessCalls : UpdateUserPrivileges_Find(c) /\ UNCHANGED notSession
    \/ \E c \in SessCalls : UpdateUserPrivileges_Save(c) /\ UNCHANGED notSession
    \/ \E c \in SessCalls : Heartbeat_Auth(c) /\ UNCHANGED notSession
    \/ \E c \in SessCalls : Heartbeat(c) /\ UNCHANGED notSession
    \/ Tick /\ UNCHANGED notSession

\* The operations that mint, present and overwrite the session fields of the
\* user row: Login, the heartbeat, UpdateUser and the clock.
SignInNext ==
    \/ \E c \in SessCalls : Login_Find(c) /\ UNCHANGED notSession
    \/ \E c \in SessCalls : Login_Save(c) /\ UNCHANGED notSession
    \/ \E c \in SessCalls : UpdateUser_Find(c) /\ UNCHANGED notSession
    \/ \E c \in SessCalls : UpdateUser_Save(c) /\ UNCHANGED notSession
    \/ \E c \in SessCalls : Heartbeat_Auth(c) /\ UNCHANGED notSession
    \/ \E c \in SessCalls : Heartbeat(c) /\ UNCHANGED notSession
    \/ Tick /\ UNCHANGED notSession

(***************************************************************************)
(*                              THE HUB MUTEX                              *)
(***************************************************************************)

\* The goroutines that touch the registry: Hub.Run, two /ws handlers calling
\* RegisterWithUser, and a caller of the two query functions.
Procs == {"run", "ws1", "ws2", "query"}

\* The operations each of them runs.
OpsOf(p) ==
    IF p = "run" THEN {"Register", "Unregister", "Broadcast", "TargetedSend"}
    ELSE IF p = "query" THEN {"GetUserConnectionCount", "IsUserOnline"}
    ELSE {"RegisterWithUser"}

\* Registry accesses between the Lock and the Unlock of an operation: the map
\* writes of Register (1), Unregister (Clients, the user list, ConnToUser) and
\* RegisterWithUser (Clients, UserClients, ConnToUser), the reads of the two
\* queries, and for the dispatches one visit of a connection with its write
\* and one with the cleanup of a failed write.
Accesses(op) ==
    IF op \in {"Register", "GetUserConnectionCount", "IsUserOnline"} THEN 1
    ELSE IF op \in {"Broadcast", "TargetedSend"} THEN 2
    ELSE 3

\* The dispatches call conn.WriteMessage inside their locked section.
WritesToPeers(op) == op \in {"Broadcast", "TargetedSend"}

\* Mutant: RegisterWithUser, which does not go through Hub.Run, takes no lock.
TakesMutex_NotRegisterWithUser(op) == op # "RegisterWithUser"

\* Every one of the seven operations starts with h.mutex.Lock() and ends with
\* h.mutex.Unlock() (deferred in RegisterWithUser and the queries).
TakesMutex(op) == TRUE

IdleProc == [op |-> "none", pc |-> "idle", left |-> 0]

HubLockStart ==
    /\ mutex = "free"
    /\ proc = [p \in Procs |-> IdleProc]

(* The operation is entered: Hub.Run has received from one of its channels, a  *)
(* handler or a caller has made its call; h.mutex.Lock() is the next thing.    *)
Enter(p, op) ==
    /\ proc[p].pc = "idle"
    /\ op \in OpsOf(p)
    /\ proc' = [proc EXCEPT ![p] = [op |-> op, pc |-> "lock", left |-> Accesses(op)]]
    /\ UNCHANGED mutex

(* h.mutex.Lock() returns: sync.Mutex, one holder at a time.                   *)
Lock(p) ==
    /\ proc[p].pc = "lock"
    /\ IF TakesMutex(proc[p].op)
       THEN mutex = "free" /\ mutex' = p
       ELSE UNCHANGED mutex
    /\ proc' = [proc EXCEPT ![p].pc = "access"]

(* One read or write of Clients, UserClients or ConnToUser; in a dispatch the  *)
(* conn.WriteMessage of the visit has returned.                                *)
Access(p) ==
    /\ proc[p].pc = "access"
    /\ proc[p].left > 0
    /\ proc' = [proc EXCEPT ![p].left = @ - 1]
    /\ UNCHANGED mutex

(* conn.WriteMessage to a stalled peer: the call does not return (no write     *)
(* deadline is set anywhere), and Hub.Run stays where it is.                   *)
WriteStalls(p) ==
    /\ proc[p].pc = "access"
    /\ proc[p].left > 0
    /\ WritesToPeers(proc[p].op)
    /\ proc' = [proc EXCEPT ![p].pc = "stalled"]
    /\ UNCHANGED mutex

(* h.mutex.Unlock(), and the operation is over.                                *)
Unlock(p) ==
    /\ proc[p].pc = "access"
    /\ proc[p].left = 0
    /\ mutex' = IF TakesMutex(proc[p].op) THEN "free" ELSE mutex
    /\ proc' = [proc EXCEPT ![p] = IdleProc]

HubLockNext ==
    \/ \E p \in Procs : \E op \in OpsOf(p) : Enter(p, op) /\ UNCHANGED notLock
    \/ \E p \in Procs : Lock(p) /\ UNCHANGED notLock
    \/ \E p \in Procs : Access(p) /\ UNCHANGED notLock
    \/ \E p \in Procs : WriteStalls(p) /\ UNCHANGED notLock
    \/ \E p \in Procs : Unlock(p) /\ UNCHANGED notLock

\* Every goroutine that can take a step does so in the end, and a goroutine
\* waiting in Lock gets the mutex if it is free again and again (sync.Mutex
\* hands the lock to a waiter that has starved for 1ms).
HubLockFairness ==
    \A p \in Procs :
        /\ WF_vars(Access(p) /\ UNCHANGED notLock)
        /\ WF_vars(Unlock(p) /\ UNCHANGED notLock)
        /\ SF_vars(Lock(p) /\ UNCHANGED notLock)

(***************************************************************************)
(*                           THE PRODUCT CATALOGUE                         *)
(***************************************************************************)

MaxCreateCalls == 3
CreateCalls == 1..MaxCreateCalls

\* The SKUs a request can carry; "" is a request without the required field.
SKUs == {"", "A-1", "B-2"}

IdleCreateCall == [pc |-> "idle", sku |-> "", result |-> "none"]

CatalogStart ==
    /\ products = <<>>
    /\ createCall = [c \in CreateCalls |-> IdleCreateCall]

Stored == {products[i] : i \in DOMAIN products}

\* productRepo.FindBySKU followed by the test of CreateProduct: a row with
\* that SKU was found.
FindBySKU(sku) == sku \in Stored

\* The unique index on products.sku: an INSERT of a SKU some row has fails.
UniqueIndexAdmits(sku) == sku \notin Stored

\* Steps 1 and 2 of CreateProduct: the validation of the required fields and
\* the duplicate test, one SELECT.
CreateProduct_Check(c, sku) ==
    /\ createCall[c].pc = "idle"
    /\ createCall' = [createCall EXCEPT ![c] =
           IF sku = ""
           THEN [pc |-> "done", sku |-> sku, result |-> "validation"]
           ELSE IF FindBySKU(sku)
           THEN [pc |-> "done", sku |-> sku, result |-> "sku_exists"]
           ELSE [pc |-> "create", sku |-> sku, result |-> "none"]]
    /\ UNCHANGED products

\* Step 4: productRepo.Create, one INSERT; its error is returned as it is.
CreateProduct_Create(c) ==
    /\ createCall[c].pc = "create"
    /\ IF UniqueIndexAdmits(createCall[c].sku)
       THEN /\ products' = Append(products, createCall[c].sku)
            /\ createCall' = [createCall EXCEPT ![c].pc = "done", ![c].result = "ok"]
       ELSE /\ createCall' = [createCall EXCEPT ![c].pc = "done", ![c].result = "db_error"]
            /\ UNCHANGED products

CatalogNext ==
    \/ \E c \in CreateCalls : \E sku \in SKUs :
           CreateProduct_Check(c, sku) /\ UNCHANGED notCatalog
    \/ \E c \in CreateCalls : CreateProduct_Create(c) /\ UNCHANGED notCatalog

\* The subsystems a specification is not about stay as they start.
LedgerIdle == LedgerStart /\ stock = 0
HubIdle == HubStart(MaxConns)
IntervalIdle == probe = NoProbe
ShiftIdle == ShiftStart /\ nowEarly = FALSE
SessionIdle == SessionStart
LockIdle == HubLockStart
CatalogIdle == CatalogStart

LedgerInit == LedgerStart /\ HubIdle /\ IntervalIdle /\ ShiftIdle /\ SessionIdle /\ LockIdle /\ CatalogIdle

SpecLedger == LedgerInit /\ [][LedgerNext]_vars

HubInit == HubStart(MaxConns) /\ LedgerIdle /\ IntervalIdle /\ ShiftIdle /\ SessionIdle /\ LockIdle /\ CatalogIdle

SpecHub == HubInit /\ [][HubNext]_vars

HubWideInit == HubStart(MaxUserConns) /\ LedgerIdle /\ IntervalIdle /\ ShiftIdle /\ SessionIdle /\ LockIdle /\ CatalogIdle

SpecHubWide == HubWideInit /\ [][HubNext]_vars

IntervalInit == IntervalStart /\ LedgerIdle /\ HubIdle /\ ShiftIdle /\ SessionIdle /\ LockIdle /\ CatalogIdle

SpecInterval == IntervalInit /\ [][IntervalNext]_vars

ShiftInit == ShiftStart /\ LedgerIdle /\ HubIdle /\ IntervalIdle /\ SessionIdle /\ LockIdle /\ CatalogIdle

SpecShift == ShiftInit /\ [][ShiftNext]_vars

ShiftEditInit ==
    ShiftSeeded /\ LedgerIdle /\ HubIdle /\ IntervalIdle /\ SessionIdle /\ LockIdle /\ CatalogIdle

SpecShiftEdit == ShiftEditInit /\ [][ShiftEditNext]_vars

SpecShiftSeq == ShiftEditInit /\ [][ShiftSeqNext]_vars

SessionInit == SessionStart /\ LedgerIdle /\ HubIdle /\ IntervalIdle /\ ShiftIdle /\ LockIdle /\ CatalogIdle

SpecSession == SessionInit /\ [][SessionNext]_vars

SpecSignIn == SessionInit /\ [][SignInNext]_vars

HubLockInit ==
    HubLockStart /\ LedgerIdle /\ HubIdle /\ IntervalIdle /\ ShiftIdle /\ SessionIdle /\ CatalogIdle

NotifierInit ==
    NotifierStart /\ LedgerIdle /\ IntervalIdle /\ ShiftIdle /\ SessionIdle /\ LockIdle /\ CatalogIdle

SpecNotifier == NotifierInit /\ [][NotifierNext]_vars

SpecHubLock == HubLockInit /\ [][HubLockNext]_vars

SpecHubLockFair == HubLockInit /\ [][HubLockNext]_vars /\ HubLockFairness

CatalogInit ==
    CatalogStart /\ LedgerIdle /\ HubIdle /\ IntervalIdle /\ ShiftIdle /\ SessionIdle /\ LockIdle

SpecCatalog == CatalogInit /\ [][CatalogNext]_vars

(* ---------------------------- ledger claims ----------------------------- *)

Started == {c \in Calls : call[c].pc # "idle"}
AllDone == \A c \in Calls : call[c].pc = "done"
OkRT(c) == call[c].op = "RT" /\ call[c].result = "ok"

RECURSIVE SumQty(_, _)
\* The sum of the quantities of the successful RecordTransaction calls of type
\* t among the calls 1..n.
SumQty(n, t) ==
    IF n = 0 THEN 0
    ELSE SumQty(n - 1, t) + (IF OkRT(n) /\ call[n].type = t THEN call[n].qty ELSE 0)

NoOtherWriter == \A c \in Calls : call[c].op # "UP"

\* C1: for a sequence of RecordTransaction calls against the product, run one
\* after another with no other writer, the stock is the initial stock plus the
\* quantities of the successful IN calls minus those of the successful OUT
\* calls, and the ledger holds one entry per successful call.
C1_StockIsInitialPlusInMinusOut ==
    (~overlap /\ NoOtherWriter) =>
        /\ stock = stock0 + SumQty(MaxCalls, TxIn) - SumQty(MaxCalls, TxOut)
        /\ Cardinality(ledger) = Cardinality({c \in Calls : OkRT(c)})

\* A serial run with a successful IN, a successful OUT and nothing in flight.
C1_Witness ==
    /\ ~overlap /\ NoOtherWriter /\ AllDone
    /\ \E c, d \in Calls :
        /\ OkRT(c) /\ call[c].type = TxIn
        /\ OkRT(d) /\ call[d].type = TxOut

RECURSIVE Orders(_)
\* The orders (sequences without repetition) of the elements of S.
Orders(S) ==
    IF S = {} THEN {<<>>}
    ELSE UNION {{<<x>> \o o : o \in Orders(S \ {x})} : x \in S}

\* What call c does to the committed rows db = [stock, price, ledger] when it
\* runs alone, with the persistence outcome it had (a failed unit of work does
\* nothing, a Save fallback writes the whole row).
RunAlone(c, db) ==
    LET r == call[c]
    IN  IF r.result = "db_error" \/ r.pid # ProductID THEN db
        ELSE IF r.op = "UP"
        THEN [db EXCEPT !.stock = r.reqStock,
                        !.price = IF r.result = "ok_saved" THEN r.reqPrice ELSE @]
        ELSE IF ~ValidTransaction(r.pid, r.type, r.qty)
                \/ InsufficientStock(r.type, db.stock, r.qty)
        THEN db
        ELSE [db EXCEPT !.stock = NewStock(r.type, @, r.qty),
                        !.ledger = @ \cup {[id |-> c, pid |-> r.pid, type |-> r.type,
                                            qty |-> r.qty,
                                            total |-> TotalAmount(db.price, r.qty)]}]

RECURSIVE RunSerially(_, _)
RunSerially(order, db) ==
    IF order = <<>> THEN db
    ELSE RunSerially(Tail(order), RunAlone(Head(order), db))

\* C2: the final stock and the ledger entries of concurrent RecordTransaction
\* and UpdateProduct calls on the product are those of running the same calls
\* one at a time in some order.
C2_Serializable ==
    AllDone =>
        \E order \in Orders(Calls) :
            LET db == RunSerially(order, [stock |-> stock0, price |-> UnitPrice, ledger |-> {}])
            IN  /\ db.stock = stock
                /\ {<<e.id, e.type, e.qty>> : e \in db.ledger}
                     = {<<e.id, e.type, e.qty>> : e \in ledger}

C4_StockAndLedgerTogether ==
    \A c \in Calls : call[c].op = "RT" =>
        (c \in stockWrites <=> \E e \in ledger : e.id = c)

\* One unit of work was rolled back after its UPDATE of the stock, another one
\* committed.
C4_Witness ==
    \E c, d \in Calls :
        /\ call[c].op = "RT" /\ call[c].result = "db_error"
        /\ OkRT(d) /\ d \in stockWrites

(***************************************************************************)
(*                   Claims about the shift-overlap detector               *)
(***************************************************************************)

\* Minutes since midnight of a valid HH:MM, read digit by digit.
DigitValue(ch) == CHOOSE n \in 0..9 : ToString(n) = ch
MinuteOfDay(t) ==
    (DigitValue(t[1]) * 10 + DigitValue(t[2])) * 60 + DigitValue(t[4]) * 10 + DigitValue(t[5])

\* The part of the day a range occupies, as half-open intervals of minutes:
\* [start, end), or [start, 1440) and [0, end) when end <= start.
Occupancy(start, end) ==
    LET s == MinuteOfDay(start)
        e == MinuteOfDay(end)
    IN  IF s < e THEN {<<s, e>>} ELSE {<<s, 1440>>, <<0, e>>}

Intersect(P, Q) ==
    \E p \in P, q \in Q :
        (IF p[1] > q[1] THEN p[1] ELSE q[1]) < (IF p[2] < q[2] THEN p[2] ELSE q[2])

Asked(a, b, c, d) ==
    /\ probe.start1 = a /\ probe.end1 = b /\ probe.start2 = c /\ probe.end2 = d
    /\ probe.done

\* C8: for HH:MM ranges with start # end, overnight meaning end <= start,
\* timeRangesOverlap answers true exactly when the two time-of-day occupancies
\* intersect; ranges that only touch do not overlap; and the four examples of
\* the specification get the stated answers.
C8_OverlapIffOccupanciesIntersect ==
    /\ (probe.done /\ probe.start1 # probe.end1 /\ probe.start2 # probe.end2) =>
          (probe.answer <=> Intersect(Occupancy(probe.start1, probe.end1),
                                      Occupancy(probe.start2, probe.end2)))
    /\ Asked(T("1","0","0","0"), T("1","4","0","0"), T("1","3","0","0"), T("1","8","0","0"))
          => probe.answer = TRUE
    /\ Asked(T("1","0","0","0"), T("1","4","0","0"), T("1","4","0","0"), T("1","8","0","0"))
          => probe.answer = FALSE
    /\ Asked(T("2","2","0","0"), T("0","6","0","0"), T("0","5","0","0"), T("0","9","0","0"))
          => probe.answer = TRUE
    /\ Asked(T("2","2","0","0"), T("0","6","0","0"), T("0","7","0","0"), T("0","9","0","0"))
          => probe.answer = FALSE

\* The overnight example that overlaps only in its after-midnight part.
C8_Witness ==
    /\ Asked(T("2","2","0","0"), T("0","6","0","0"), T("0","5","0","0"), T("0","9","0","0"))
    /\ probe.answer = TRUE

(***************************************************************************)
(*                     Claims about the shift scheduler                    *)
(***************************************************************************)

\* Two stored shifts of one user whose date ranges share a day and whose
\* time-of-day occupancies intersect.
Clash(a, b) ==
    /\ a.user = b.user
    /\ \E d \in 0..MaxDay : a.startDate <= d /\ d <= a.endDate /\ b.startDate <= d /\ d <= b.endDate
    /\ Intersect(Occupancy(a.start, a.end), Occupancy(b.start, b.end))

\* C9: in every reachable state, whatever the interleaving of CreateShift,
\* UpdateShift and DeleteShift calls, no two non-deleted stored shifts of the
\* same user have intersecting date ranges together with overlapping time
\* ranges.
C9_NoOverlappingShifts ==
    \A i \in Live(shifts), j \in Live(shifts) : i # j => ~Clash(shifts[i], shifts[j])

\* What notifyShiftUpdated has to send for a call that moved shift id from
\* user a to user b.
Owed(c, id, a, b) ==
    IF a # b
    THEN {[action |-> "shift_reassigned_from", user |-> a, id |-> id, by |-> c],
          [action |-> "shift_reassigned_to", user |-> b, id |-> id, by |-> c]}
    ELSE {[action |-> "shift_updated", user |-> a, id |-> id, by |-> c]}

RealOccupancy(r) ==
    LET s == MinuteOfDay(r.start)
        e == MinuteOfDay(r.end)
    IN  {<<d * 1440 + s, d * 1440 + (IF e > s THEN e ELSE e + 1440)>> :
            d \in r.startDate..r.endDate}

\* A call that ran alone and has just returned "ok".
Accepted(c) ==
    /\ shiftCall[c].pc = "idle"
    /\ shiftCall'[c].pc = "done"
    /\ shiftCall'[c].result = "ok"

\* C25: with calls executed one at a time, a shift that CreateShift or
\* UpdateShift accepts occupies no real time that another non-deleted shift of
\* the same user occupies; an overnight shift whose last date is D against a
\* shift of date D+1 that starts before the overnight shift ends is rejected.
C25_AcceptedShiftsShareNoRealTime ==
    [][\A c \in ShiftCalls :
          Accepted(c) =>
             LET id == shiftCall'[c].id
             IN  \A j \in Live(shifts) \ {id} :
                    shifts[j].user = shifts'[id].user
                    => ~Intersect(RealOccupancy(shifts[j]), RealOccupancy(shifts'[id]))]_vars

\* A CreateShift request that passes the checks made before the one on the
\* start date: both times well formed and different, both dates well formed,
\* the end date not before the start date.
ReachesPastCheck(req) ==
    /\ validateTimeFormat(req.start) /\ validateTimeFormat(req.end)
    /\ req.start # req.end
    /\ req.startDate # BadDate /\ req.endDate # BadDate
    /\ req.endDate >= req.startDate

\* C26: CreateShift returns the start-date-in-the-past error exactly when
\* StartDate is a calendar day strictly before the current day in Jakarta, at
\* every time of day; a StartDate equal to the current Jakarta date is never
\* rejected as being in the past.
C26_PastMeansBeforeToday ==
    \A c \in ShiftCalls :
        (/\ shiftCall[c].pc = "done" /\ shiftCall[c].op = "create"
         /\ ReachesPastCheck(shiftCall[c].req))
        => (shiftCall[c].result = "start_in_past" <=> shiftCall[c].req.startDate < Today)

\* The checks of CreateShift as the specification lists them, by position:
\* whether request req breaks check k, on the stored table.
Breaks(k, table, req, early) ==
    CASE k = 1 -> ~validateTimeFormat(req.start) \/ ~validateTimeFormat(req.end)
      [] k = 2 -> req.start = req.end
      [] k = 3 -> req.startDate = BadDate \/ req.endDate = BadDate
      [] k = 4 -> req.endDate < req.startDate
      [] k = 5 -> StartDateInPast(req.startDate, early)
      [] k = 6 -> req.user \notin DOMAIN UserActive
      [] k = 7 -> ~UserActive[req.user]
      [] k = 8 -> \E j \in Live(table) : Clash(table[j], req)

ErrorOf ==
    <<"bad_time", "same_time", "bad_date", "end_before_start", "start_in_past",
      "user_not_found", "user_not_active", "conflict">>

RECURSIVE FirstBroken(_, _, _, _, _)
\* The error of the first of the checks k..n that req breaks, "ok" if none.
FirstBroken(k, n, table, req, early) ==
    IF k > n THEN "ok"
    ELSE IF Breaks(k, table, req, early) THEN ErrorOf[k]
    ELSE FirstBroken(k + 1, n, table, req, early)

\* The same with the test the code makes between checks 5 and 6: a user id
\* that is no uuid gets an error of its own.
FirstBrokenOrBadID(table, req, early) ==
    IF FirstBroken(1, 5, table, req, early) # "ok" THEN FirstBroken(1, 5, table, req, early)
    ELSE IF req.user = BadUserID THEN "bad_user_id"
    ELSE FirstBroken(6, 8, table, req, early)

\* A CreateShift call that ran alone and has just returned.
CreateReturned(c) ==
    /\ shiftCall[c].pc = "idle"
    /\ shiftCall'[c].pc = "done"
    /\ shiftCall'[c].op = "create"

\* What a CreateShift call does when the first broken check has error want:
\* it returns that error, stores nothing and sends no notification.
RejectsWith(c, want) ==
    IF want # "ok"
    THEN shiftCall'[c].result = want /\ shifts' = shifts /\ notices' = notices
    ELSE shiftCall'[c].result \in {"ok", "db_error"}

\* C27 as stated: CreateShift makes its checks in the order time format,
\* start time equal to end time, date format, end date before start date,
\* start date in the past, target user exists, target user active, overlap,
\* and returns the error of the first that fails; nothing is stored and no
\* notification is sent.
C27_ChecksInStatedOrder ==
    [][\A c \in ShiftCalls :
          CreateReturned(c) =>
             RejectsWith(c, FirstBroken(1, 8, shifts, shiftCall'[c].req, nowEarly))]_vars

\* C27, amended: the same order with one more check between "start date in
\* the past" and "target user exists": a user id that is not a uuid is
\* rejected there with an error of its own (invalid user ID format).
C27_ChecksInOrderWithUserIdFormat ==
    [][\A c \in ShiftCalls :
          CreateReturned(c) =>
             RejectsWith(c, FirstBrokenOrBadID(shifts, shiftCall'[c].req, nowEarly))]_vars

\* A request that breaks the time format, the date format and the user check
\* at once and got the error of the time format.
C27_Witness ==
    \E c \in ShiftCalls :
        /\ shiftCall[c].pc = "done" /\ shiftCall[c].op = "create"
        /\ shiftCall[c].req.start = BadTime
        /\ shiftCall[c].req.startDate = BadDate
        /\ shiftCall[c].req.user = "u9"
        /\ shiftCall[c].result = "bad_time"

\* An UpdateShift call on a stored shift that ran alone and has just returned.
UpdateReturned(c) ==
    /\ shiftCall[c].pc = "idle"
    /\ shiftCall'[c].pc = "done"
    /\ shiftCall'[c].op = "update"
    /\ shiftCall'[c].id \in Live(shifts)

\* The other non-deleted shifts of the user shift id belongs to after update
\* p that overlap the edited values.
OthersInTheWay(id, p) ==
    {j \in Live(shifts) \ {id} : Clash(shifts[j], Merge(shifts[id], p))}

\* The overlap check of an UpdateShift call fails exactly when another shift
\* of the resulting user is in the way.
ChecksTheOthers(c) ==
    LET id == shiftCall'[c].id
        p == shiftCall'[c].req
        res == shiftCall'[c].result
    IN  IF res = "conflict" THEN OthersInTheWay(id, p) # {}
        ELSE IF res \in {"ok", "db_error"} THEN OthersInTheWay(id, p) = {}
        ELSE TRUE

\* An update that gives no time, no date and no user.
NoteOnly(p) == ~p.hasStart /\ ~p.hasEnd /\ p.hasDates = "none" /\ ~p.hasUser

Superseded == {issued[i] : i \in 1..(Len(issued) - 1)}

\* C10: once a Login has completed, no token issued by an earlier Login of the
\* user is accepted by ValidateToken or by RequireAuth, whatever Heartbeat,
\* ResetPassword, UpdateUser and UpdateUserPrivileges calls are interleaved.
C10_EarlierTokensStayRejected ==
    \A t \in Superseded : ~ValidateToken(t) /\ ~RequireAuth(t)

\* The tokens the Logins have returned so far.
Issued == {issued[i] : i \in 1..Len(issued)}

\* What the session rules ask of a credential: its version is the stored one,
\* the user is active, LastSeenAt is set and at most 5 minutes old.
SessionLive(t) ==
    /\ t.version = user.tokenVersion
    /\ user.isActive
    /\ user.lastSeenAt # NilTime
    /\ clock - user.lastSeenAt <= IdleLimit

\* C11: a credential is accepted, by ValidateToken and by the RequireAuth check
\* in front of the protected operations, only if its token version is the
\* stored TokenVersion, the user is active and LastSeenAt is set and at most 5
\* minutes old.
C11_AcceptedOnlyIfSessionLive ==
    \A t \in Issued : (ValidateToken(t) \/ RequireAuth(t)) => SessionLive(t)

\* The session of credential t has timed out: t carries the stored version
\* and LastSeenAt is nil or more than 5 minutes old.
TimedOut(t) ==
    /\ t.version = user.tokenVersion
    /\ IF user.lastSeenAt = NilTime THEN TRUE ELSE clock - user.lastSeenAt > IdleLimit

\* C29: once a session has timed out, its credential stays rejected until a
\* new successful Login: a Heartbeat that carries the timed-out credential is
\* refused and does not refresh LastSeenAt, so no step makes the credential
\* pass validation again.
C29_TimedOutStaysRejected ==
    [][\A i \in 1..Len(issued) :
          TimedOut(issued[i]) =>
             /\ ~ValidateToken(issued[i])'
             /\ \A c \in SessCalls :
                   ~(sessCall[c].pc = "idle" /\ sessCall'[c].op = "heartbeat"
                        /\ sessCall'[c].tok = i)]_vars

\* The positions of the issued credentials that pass a validation now.
PassingNow == {i \in 1..Len(issued) : ValidateToken(issued[i]) \/ RequireAuth(issued[i])}

\* A Login that has just been turned down for its password or because the
\* user is not active.
LoginTurnedDown(c) ==
    /\ sessCall[c].pc = "idle"
    /\ sessCall'[c].pc = "done"
    /\ sessCall'[c].result \in {"invalid_credentials", "inactive"}

\* C30: in every reachable state at most one issued credential of the user
\* passes validation, so the tokens of two Logins, sequential or concurrent,
\* are never both valid; and a Login that fails on the password or on an
\* inactive user leaves the stored TokenVersion as it was.
C30_AtMostOneCredentialValid ==
    /\ [](Cardinality(PassingNow) <= 1)
    /\ [][\A c \in SessCalls :
             LoginTurnedDown(c) => user'.tokenVersion = user.tokenVersion]_vars

\* Two Logins returned a token each, the later token passes, the earlier does
\* not, and a further Login was turned down.
C30_Witness ==
    /\ Len(issued) = 2
    /\ ValidateToken(issued[2])
    /\ ~ValidateToken(issued[1]) /\ ~RequireAuth(issued[1])
    /\ \E c \in SessCalls : sessCall[c].result = "invalid_credentials"

(* ------------------------- more ledger claims --------------------------- *)

RECURSIVE Replay(_)
\* The IN quantities minus the OUT quantities of a set of ledger entries.
Replay(entries) ==
    IF entries = {} THEN 0
    ELSE LET e == CHOOSE x \in entries : TRUE
         IN  (IF e.type = TxIn THEN e.qty ELSE 0 - e.qty) + Replay(entries \ {e})

\* C12: Product.Stock is never negative, whatever CreateProduct, UpdateProduct
\* and RecordTransaction calls run and whatever stock and quantity they carry.
C12_StockNeverNegative == stock >= 0

\* C13: the IN quantities minus the OUT quantities of the product's ledger
\* entries always equal the product's current Stock.  Stated for the product
\* that was created with stock 0, whose empty ledger agrees with its stock to
\* begin with.
C13_LedgerReplayEqualsStock ==
    stock0 = 0 => Replay({e \in ledger : e.pid = ProductID}) = stock

\* C14: when UpdateProduct returns success, the stored row has the requested
\* Stock and Price (Name, SKU and Unit travel with Price), and so equals the
\* product handed back to the caller and put in the product_updated event,
\* which is the row read with the requested fields laid over it.
C14_UpdateProductStoresRequest ==
    [][\A c \in Calls :
        (/\ call[c].op = "UP" /\ call[c].pc = "updated"
         /\ call'[c].pc = "done" /\ call'[c].result = "ok")
        => (stock' = call[c].reqStock /\ price' = call[c].reqPrice)]_vars

\* C15: a stock_update, financial_update or product_updated payload is
\* submitted to the Hub only for a RecordTransaction or UpdateProduct whose
\* unit of work committed; none is submitted for one that was rolled back.
C15_EventsOnlyForCommitted ==
    \A c \in Calls : (call[c].pc = "done" /\ call[c].spawned) => call[c].result = "ok"

(* --------------------------- more Hub claims ---------------------------- *)

\* The connections found in some user's list.
Listed == UNION {Range(UserClients[u]) : u \in DOMAIN UserClients}

\* C16: in a Broadcast dispatch a failed write closes the connection and takes
\* it out of Clients, of ConnToUser and of its user's list within that
\* dispatch; every other registered connection is still written to and gets
\* the payload; and nothing goes back to the submitter: the handlers and the
\* other pending sends are as they were.
C16_BroadcastDropsFailedAndGoesOn ==
    [][(last'.msg # last.msg /\ last'.kind = "broadcast") =>
        LET failed == {c \in Clients : connState[c] # "open"}
        IN  /\ \A c \in failed :
                /\ connState'[c] = "closed"
                /\ c \notin Clients'
                /\ c \notin DOMAIN ConnToUser'
                /\ \A u \in DOMAIN UserClients' : c \notin Range(UserClients'[u])
            /\ Clients' = Clients \ failed
            /\ Range(last'.writes) = Clients
            /\ last'.got = Clients \ failed
            /\ handler' = handler
            /\ chans' = [chans EXCEPT !.broadcast = Tail(@)]
            /\ msgs'[last'.msg].at = "done"]_vars

\* A broadcast in which the write to a connection of a user failed and another
\* connection got the payload.
C16_Witness ==
    /\ last.kind = "broadcast"
    /\ last.got # {}
    /\ \E c \in Range(last.writes) \ last.got : handler[c].user # Anonymous

\* C17: after every Hub operation the three views of the registry agree: a
\* connection is in UserClients[u] exactly when ConnToUser maps it to u, every
\* such connection is in Clients, no list holds a connection twice and no user
\* maps to an empty list.
C17_RegistryViewsAgree ==
    /\ \A u \in DOMAIN UserClients :
        /\ UserClients[u] # <<>>
        /\ \A i, j \in 1..Len(UserClients[u]) : UserClients[u][i] = UserClients[u][j] => i = j
        /\ \A c \in Range(UserClients[u]) : c \in DOMAIN ConnToUser /\ ConnToUser[c] = u
    /\ \A c \in DOMAIN ConnToUser :
        /\ ConnToUser[c] \in DOMAIN UserClients
        /\ c \in Range(UserClients[ConnToUser[c]])
        /\ c \in Clients

\* A connection of a user has been closed and removed from the registry while
\* another connection is still in a user's list.
C17_Witness ==
    /\ Cardinality(DOMAIN UserClients) = 1
    /\ \E c \in Conns : handler[c].user # Anonymous /\ connState[c] = "closed" /\ c \notin Listed
    /\ \E c \in Conns : c \in Listed

(* ------------------------ claims about the mutex ------------------------ *)

\* Goroutine p is between the return of its Lock and its Unlock, reading or
\* updating the registry (or stuck in a write inside that section).
InRegistry(p) == proc[p].pc \in {"access", "stalled"}

\* C18: the registry operations exclude each other: no goroutine reads or
\* iterates Clients, UserClients or ConnToUser while another one is part-way
\* through its own reads and updates, RegisterWithUser and the two queries
\* included.
C18_RegistryAccessExclusive ==
    \A p, q \in Procs : (p # q /\ InRegistry(p)) => ~InRegistry(q)

\* RegisterWithUser is part-way through its three writes while Hub.Run and a
\* query wait for the mutex.
C18_Witness ==
    /\ proc["ws1"].pc = "access" /\ proc["ws1"].left = 1
    /\ proc["run"].pc = "lock"
    /\ proc["query"].pc = "lock"

\* C19: a write that never returns holds up nothing else: the dispatch it is
\* part of and every later registry operation (dispatches, Register,
\* RegisterWithUser, Unregister) still complete.
C19_StalledWriteBlocksOnlyItself ==
    \A p \in Procs : (proc[p].pc # "idle") ~> (proc[p].pc = "idle")

(* ----------------------- claims about the notifier ---------------------- *)

\* The position of a payload kind among the goroutine's sends.
SendOf(kind) == CHOOSE m \in DOMAIN Payloads : Payloads[m] = kind

\* C20: a successful RecordTransaction submits one stock_update and then one
\* financial_update, each once; and of two payloads one sender submits in the
\* order M1, M2, M1 is dispatched (reaching every connection that gets it)
\* before M2 is: a connection that receives both receives M1 first.
C20_StockThenFinancialInOrder ==
    /\ [](\A m \in DOMAIN msgs :
            msgs[m].at # "unsent" => \A k \in 1..(m - 1) : msgs[k].at = "done")
    /\ [](msgs[SendOf("financial_update")].at # "unsent"
            => msgs[SendOf("stock_update")].at = "done")
    /\ [][\A m \in DOMAIN msgs : msgs'[m].at # msgs[m].at =>
            \/ msgs[m].at = "unsent" /\ msgs'[m].at = "queued"
            \/ msgs[m].at = "queued" /\ msgs'[m].at = "done"]_vars
    /\ [][\A m \in DOMAIN msgs : (last'.msg = m /\ last.msg # m) =>
            /\ \A k \in 1..(m - 1) : msgs[k].at = "done"
            /\ last'.prevGot = last.got
            /\ m > 1 => last.msg = m - 1]_vars

\* Both payloads have been dispatched; one connection received both, another
\* received only one of them.
C20_Witness ==
    /\ last.msg = SendOf("financial_update")
    /\ msgs[SendOf("stock_update")].at = "done"
    /\ last.got \cap last.prevGot # {}
    /\ last.got # last.prevGot

\* The stages of a RecordTransaction unit of work between its read and its
\* commit.
InWork == {"read", "updated", "inserted"}

\* C23: every ledger entry stored by RecordTransaction has TotalAmount equal
\* to its Quantity times the product's Price as the unit of work read it,
\* whatever total_amount the caller supplied and whatever UpdateProduct calls
\* run meanwhile: the amount is fixed at the read, is not changed while the
\* unit of work runs, and is the amount of the entry the commit stores.
C23_TotalIsQuantityTimesPriceRead ==
    [][\A c \in Calls :
        /\ (call[c].pc = "idle" /\ call'[c].op = "RT" /\ call'[c].pc = "read")
              => call'[c].total = call'[c].qty * price
        /\ (call[c].op = "RT" /\ call[c].pc \in InWork /\ call'[c].pc \in InWork)
              => (call'[c].total = call[c].total /\ call'[c].qty = call[c].qty)
        /\ (call[c].op = "RT" /\ call[c].pc = "inserted" /\ call'[c].pc = "done"
                /\ call'[c].result = "ok")
              => \E e \in ledger' :
                    /\ ledger' = ledger \cup {e} /\ e \notin ledger
                    /\ e.qty = call[c].qty /\ e.total = call[c].total]_vars

\* A stored entry whose amount is the price as read, after an UpdateProduct
\* has stored another price.
C23_Witness ==
    \E e \in ledger : e.qty > 0 /\ e.total = e.qty * UnitPrice /\ price # UnitPrice

\* How many times a dispatch wrote to connection c.
TimesWritten(writes, c) == Cardinality({i \in DOMAIN writes : writes[i] = c})

\* C24: in a targeted dispatch to a user with several connections in which the
\* write to one of them fails, every other connection of that user whose write
\* would succeed gets the payload exactly once, none skipped and none written
\* twice, and the connections removed from the registry by the dispatch are
\* exactly those whose write failed.
C24_TargetedSkipsOnlyTheFailed ==
    [][(/\ chans.targeted # <<>>
        /\ last'.msg = Head(chans.targeted)
        /\ last'.kind = "targeted"
        /\ \E c \in last'.dispReg : connState[c] # "open")
       => /\ \A c \in last'.dispReg :
                connState[c] = "open" => TimesWritten(last'.writes, c) = 1
          /\ Clients \ Clients' = {c \in last'.dispReg : connState[c] # "open"}]_vars

(***************************************************************************)
(*                   Claims about the product catalogue                    *)
(***************************************************************************)

NoSharedSKU ==
    \A i, j \in DOMAIN products : products[i] = products[j] => i = j

\* C21: for any interleaving of CreateProduct calls, a call whose SKU is the
\* SKU of a stored product when the call ends (stored before, or by a
\* concurrent call that was stored first) ends with 'SKU already exists' and
\* stores nothing, and no two stored products share a SKU.
C21_DuplicateRejectedAsSuch ==
    /\ []NoSharedSKU
    /\ [][\A c \in CreateCalls :
            (/\ createCall[c].pc # "done"
             /\ createCall'[c].pc = "done"
             /\ createCall'[c].sku \in Stored)
            => (createCall'[c].result = "sku_exists" /\ products' = products)]_vars

====
